---------------------------- MODULE Spec2Model ----------------------------
(***************************************************************************)
(* Session signalling and chat relay of the stream server.                 *)
(*                                                                         *)
(* The server side is MediasoupServer (stream-server/src/server/           *)
(* mediasoup.ts) and the socket.io handlers of the server's index file     *)
(* (src/unnamed/part_002, lines 263-635).  The state is the five maps of   *)
(* MediasoupServer, the handler-level map socketToTransportId, the         *)
(* notifications each connection has received and the answer on its way to *)
(* the requesting client.  Each handler is one action.  The media engine   *)
(* (mediasoup) is outside the repository: each call into it either         *)
(* succeeds or throws, chosen nondeterministically, and closing a          *)
(* transport closes what was produced on it and runs the 'transportclose'  *)
(* listeners the code registered.                                          *)
(*                                                                         *)
(* What the clients see (answers, notifications) does not feed back into   *)
(* the server.  A specification records only the part of it that its       *)
(* claims are about: `observed` names the requests whose answers are       *)
(* recorded in `reply` and says whether notifications are recorded in      *)
(* `inbox` and whether a transport remembers the handler that created it.  *)
(* The directory evolves the same way whatever is observed.                *)
(*                                                                         *)
(* The chat relay adds the two client programs of the repository: the      *)
(* publisher (stream-client App.tsx with WebRTCService, src/unnamed/       *)
(* part_001) and the viewer (StreamViewer.tsx).  A client issues its       *)
(* requests in the order of its code, keeps its local message buffer and   *)
(* receives what the server pushes to it.                                  *)
(*                                                                         *)
(* `scope` fixes, for a behaviour, how many connections, producers and     *)
(* data producers there can be.  `pending` holds the handlers that are     *)
(* suspended at an await of an engine call (SpecAsync) and the request     *)
(* the event loop has taken up (SpecSignal).                               *)
(***************************************************************************)
EXTENDS Naturals, Sequences, FiniteSets, TLC

\* ------------------------------------------------------------------ bounds
MaxConn == 3
MaxTransports == 2
MaxProducers == 2
MaxDataProducers == 2
MaxMessages == 1
MaxLists == 1
MaxReconnects == 1

\* setupDataChannel: `const maxAttempts = 100`, the polls of its wait for the video
\* producer
maxAttempts == 100

VARIABLES
    conn,                \* socket.io connection status of every socket id
    transports,          \* MediasoupServer.transports      : transport id -> transport
    socketToTransport,   \* MediasoupServer.socketToTransport : socket id -> transport id
    socketToStreamId,    \* MediasoupServer.socketToStreamId  : socket id -> producer id
    producers,           \* MediasoupServer.producers       : producer id -> producer
    dataProducers,       \* MediasoupServer.dataProducers   : key -> data producer
    socketToTransportId, \* the handlers' map socketToTransportId
    nT, nP, nD,          \* ids the media engine has handed out so far
    inbox,               \* notifications each connection has received, in order
    reply,               \* the answer on its way to the requesting client, if any
    observed,            \* what of the clients' view is recorded (fixed per behaviour)
    scope,               \* how many connections and producers there are (fixed per behaviour)
    pending,             \* the handlers suspended in a call of the media engine
    client,              \* the client program behind every connection and its refs
    messages,            \* the local message buffer (messages state) of every client
    outbox,              \* chatMessage events emitted by a client, not yet handled
    wire,                \* chat pushed by the server, not yet received by the client
    nM                   \* chat messages written so far

vars == <<conn, transports, socketToTransport, socketToStreamId, producers,
          dataProducers, socketToTransportId, nT, nP, nD, inbox, reply, observed,
          scope, pending, client, messages, outbox, wire, nM>>

\* the directory: the maps the server keeps
directory == <<transports, socketToTransport, socketToStreamId, producers,
               dataProducers, socketToTransportId>>
\* the ids the engine has handed out
ids == <<nT, nP, nD>>
\* the clients and the chat in flight
chat == <<client, messages, outbox, wire, nM>>

\* ------------------------------------------------------------- identifiers
Conn == 1 .. MaxConn
NoId == <<>>                      \* Map.get(...) === undefined
TId(n) == <<"T", n>>              \* ids are engine-assigned, unique per kind
PId(n) == <<"P", n>>
DId(n) == <<"D", n>>
Kinds == {"video", "audio"}
Roles == {"publish", "subscribe"}

\* `${producerId}-data`: the chat key of a stream; a data producer's own id has no suffix
ChatKey(id) == <<id, "-data">>
RawKey(id) == <<id, "">>
\* data.dataProducerId.endsWith('-data')
EndsWithData(key) == key[2] = "-data"

\* Map helpers
MapSet(m, k, v) == (k :> v) @@ m
MapDelete(m, k) == [x \in DOMAIN m \ {k} |-> m[x]]
Has(m, k) == k \in DOMAIN m
Get(m, k) == IF k \in DOMAIN m THEN m[k] ELSE NoId

\* ids a client may put into a request: every id handed out so far and one never handed out
TransportArgs == {TId(n) : n \in 0 .. nT}
ProducerArgs == {PId(n) : n \in 0 .. nP}
KeyArgs == {ChatKey(p) : p \in ProducerArgs} \cup {RawKey(DId(n)) : n \in 0 .. nD}
\* ids the engine has handed out to producers: the streams a viewer may have picked from
\* the list; an id of this set that is not in the producers map is stale
HandedOutProducers == {PId(n) : n \in 1 .. nP}

\* ----------------------------------------------------------------- answers
NoArg == [transportId |-> NoId, producerId |-> NoId, key |-> NoId, kind |-> ""]
Answer(c, req, arg, res, err, id) ==
    [socket |-> c, req |-> req, arg |-> arg, res |-> res, error |-> err, id |-> id,
     list |-> {}]
\* no answer on its way to a client
Quiet == Answer(0, "", NoArg, "none", "", NoId)

\* the answer as recorded: only observed requests leave one
Record(answer) == IF answer.req \in observed THEN answer ELSE Quiet

\* the server right after start(): no connection, empty maps
InitServer ==
    /\ conn = [c \in Conn |-> "new"]
    /\ transports = <<>>
    /\ socketToTransport = <<>>
    /\ socketToStreamId = <<>>
    /\ producers = <<>>
    /\ dataProducers = <<>>
    /\ socketToTransportId = <<>>
    /\ nT = 0 /\ nP = 0 /\ nD = 0
    /\ inbox = [c \in Conn |-> <<>>]
    /\ reply = Quiet
    /\ pending = {}

\* the scope of the specifications in which every handler runs to its end without
\* another one in between: one connection, one producer and one data producer less than
\* there can be
Narrow ==
    [conns |-> MaxConn - 1, producers |-> MaxProducers - 1,
     dataProducers |-> MaxDataProducers - 1]
\* the scope of the specifications with suspended handlers
Wide ==
    [conns |-> MaxConn, producers |-> MaxProducers,
     dataProducers |-> MaxDataProducers - 1]
\* the scope of the specifications of one client's program: the server with two
\* connections less than there can be
Single ==
    [conns |-> MaxConn - 2, producers |-> MaxProducers - 1,
     dataProducers |-> MaxDataProducers - 1]
\* the scope of the specification of one call of setupDataChannel: one publisher, which
\* produces one stream
Alone == [conns |-> 1, producers |-> 1, dataProducers |-> 1]
\* the scope of the specifications of the viewer's chat and of the reading handlers: one
\* connection with its stream and one more connection
Pair == [conns |-> 2, producers |-> 1, dataProducers |-> 1]
\* the scope of the specification of the viewer's chat filter: two publishers with a
\* stream each and one viewer
Streams == [conns |-> 3, producers |-> 2, dataProducers |-> 1]
\* the scope of the specification of the data producer registrations: a second data
\* producer can follow the first
Registering ==
    [conns |-> MaxConn - 1, producers |-> MaxProducers - 1,
     dataProducers |-> MaxDataProducers]

\* no client program has started
NoClient ==
    [program |-> "none", pc |-> "start", transport |-> NoId, stream |-> NoId,
     dataConsumer |-> NoId,
     \* WebRTCService.connect: its promise and its two setTimeout timers
     promise |-> "none", capsTimer |-> "off", connectTimer |-> "off",
     \* stream-client App: the connected and streamStarted states
     connected |-> FALSE, streamStarted |-> FALSE,
     \* WebRTCService.setupDataChannel: the wait for the video producer, its attempts
     \* and the consumeData requests it has emitted
     poll |-> "off", attempts |-> 0, emitted |-> 0,
     \* StreamViewer: isChatConnected
     isChatConnected |-> FALSE,
     \* WebRTCService: how often the socket's 'connect' event has fired after the first
     \* time
     reconnects |-> 0]
InitClients ==
    /\ client = [c \in Conn |-> NoClient]
    /\ messages = [c \in Conn |-> <<>>]
    /\ outbox = [c \in Conn |-> <<>>]
    /\ wire = {}
    /\ nM = 0

\* ------------------------------------------------------------ media engine
\* router.createWebRtcTransport({..., appData: { socketId }}); role is the handler that
\* asked for it (createProducerTransport or createConsumerTransport), which the code does
\* not store: it is recorded when observed
NewTransport(c, role) ==
    [socketId |-> c, role |-> IF "roles" \in observed THEN role ELSE "any",
     dtls |-> IF "dtls" \in observed THEN "new" ELSE "any"]

\* the DTLS state of a transport of the engine after a change to state, recorded when
\* observed; no handler reads it
WithDtls(t, state) ==
    IF "dtls" \in observed THEN [transports EXCEPT ![t].dtls = state] ELSE transports

\* transport.produce({ kind, rtpParameters }): no appData is passed, so
\* producer.appData.socketId is undefined; createdBy records the requesting socket
NoSocket == 0
NewProducer(c, kind, t) ==
    [kind |-> kind, transportId |-> t, appData |-> [socketId |-> NoSocket], createdBy |-> c]

\* transport.produceData({...}); listeners: setupDataProducerListeners was called on it
NewDataProducer(n, t, listeners) ==
    [id |-> DId(n), transportId |-> t, listeners |-> listeners, closed |-> FALSE]

\* producer.on('transportclose') / observer 'close': this.producers.delete(producer.id),
\* run by the engine for every producer of a transport that closes
ProducersAfterTransportClose(ps, closed) ==
    [p \in {q \in DOMAIN ps : ps[q].transportId \notin closed} |-> ps[p]]

\* setupDataProducerListeners: on 'transportclose' this.dataProducers.delete(dataProducer.id)
\* (the data producer's own id, whatever key it was registered under); the engine closes
\* every data producer of a transport that closes
DataProducersAfterTransportClose(dps, closed) ==
    LET hit == {k \in DOMAIN dps : dps[k].transportId \in closed}
        gone == {RawKey(dps[k].id) : k \in {h \in hit : dps[h].listeners}}
    IN  [k \in DOMAIN dps \ gone |->
            IF k \in hit THEN [dps[k] EXCEPT !.closed = TRUE] ELSE dps[k]]

\* ---------------------------------------------------------- MediasoupServer
\* a cleanup that, when the socket has no entry in socketToTransport, closes one of the
\* transports created for the socket instead
CleanupClosed_OneOwned(c) ==
    LET t == Get(socketToTransport, c)
        owned == {o \in DOMAIN transports : transports[o].socketId = c}
    IN  IF t # NoId /\ Has(transports, t) THEN {t}
        ELSE IF owned # {} THEN {CHOOSE o \in owned : TRUE}
        ELSE {}

\* cleanup(socketId): the transport cleanup closes, if any
CleanupClosed(c) ==
    LET t == Get(socketToTransport, c)
    IN  IF t # NoId /\ Has(transports, t) THEN {t} ELSE {}

\* cleanup(socketId): the loop over this.producers
CleanupProducerLoop(ps, c) ==
    [p \in {q \in DOMAIN ps : ps[q].appData.socketId # c} |-> ps[p]]

\* cleanup(socketId), the whole method
Cleanup(c) ==
    /\ socketToStreamId' = MapDelete(socketToStreamId, c)
    /\ transports' = [t \in DOMAIN transports \ CleanupClosed(c) |-> transports[t]]
    /\ socketToTransport' = MapDelete(socketToTransport, c)
    /\ producers' =
          CleanupProducerLoop(ProducersAfterTransportClose(producers, CleanupClosed(c)), c)
    /\ dataProducers' = DataProducersAfterTransportClose(dataProducers, CleanupClosed(c))

\* getProducers()
GetProducersList == {[id |-> p, kind |-> producers[p].kind] : p \in DOMAIN producers}

\* consume() without the lookup of the producer in this.producers
ConsumeOutcome_ProducerUnchecked(transportId, producerId, canConsume, engineOk) ==
    IF ~Has(transports, transportId) THEN "TransportNotFound"
    ELSE IF ~canConsume THEN "CannotConsume"
    ELSE IF ~engineOk THEN "EngineError"
    ELSE "ok"

\* consume(transportId, producerId, rtpCapabilities): what the method does, given the
\* engine's answers to router.canConsume and transport.consume
ConsumeOutcome(transportId, producerId, canConsume, engineOk) ==
    IF ~Has(transports, transportId) THEN "TransportNotFound"
    ELSE IF ~Has(producers, producerId) THEN "ProducerNotFound"
    ELSE IF ~canConsume THEN "CannotConsume"
    ELSE IF ~engineOk THEN "EngineError"
    ELSE "ok"

\* ---------------------------------------------------------------- handlers
\* io.emit(event, ...) in the place of socket.broadcast.emit: the sender receives it too
BroadcastFrom_ToAll(c, note) ==
    IF "notifications" \notin observed THEN inbox
    ELSE [d \in Conn |-> IF conn[d] = "connected" THEN Append(inbox[d], note)
                         ELSE inbox[d]]

\* socket.broadcast.emit(event, ...): every connected socket but the sender receives it
BroadcastFrom(c, note) ==
    IF "notifications" \notin observed THEN inbox
    ELSE [d \in Conn |-> IF d # c /\ conn[d] = "connected" THEN Append(inbox[d], note)
                         ELSE inbox[d]]

\* a handler runs for a connected socket; the previous answer has been delivered
Ready(c) == reply.res = "none" /\ conn[c] = "connected"

\* io.on('connection'): the socket gets a fresh id (ids are handed out in order)
Connect(c) ==
    /\ reply.res = "none"
    /\ conn[c] = "new"
    /\ c <= scope.conns
    /\ \A d \in Conn : d < c => conn[d] # "new"
    /\ conn' = [conn EXCEPT ![c] = "connected"]
    /\ UNCHANGED <<directory, ids, inbox, reply, observed, scope>>

\* socket.on('createProducerTransport') / socket.on('createConsumerTransport'):
\* createWebRtcTransport(socket.id), then socketToTransportId.set(socket.id, transport.id)
CreateTransport(c, role, engineOk) ==
    /\ Ready(c)
    /\ IF engineOk
       THEN /\ nT < MaxTransports
            /\ nT' = nT + 1
            /\ transports' = MapSet(transports, TId(nT + 1), NewTransport(c, role))
            /\ socketToTransport' = MapSet(socketToTransport, c, TId(nT + 1))
            /\ socketToTransportId' = MapSet(socketToTransportId, c, TId(nT + 1))
            /\ reply' = Record(Answer(c, "createTransport", [NoArg EXCEPT !.kind = role],
                                      "ok", "", TId(nT + 1)))
       ELSE /\ reply' = Record(Answer(c, "createTransport", [NoArg EXCEPT !.kind = role],
                                      "error", "FailedToCreateTransport", NoId))
            /\ UNCHANGED <<transports, socketToTransport, socketToTransportId, nT>>
    /\ UNCHANGED <<conn, socketToStreamId, producers, dataProducers, nP, nD, inbox,
                   observed, scope>>

\* socket.on('produce') and MediasoupServer.produce up to the engine call: the error, if any
ProduceError(c, engineOk) ==
    IF Get(socketToTransportId, c) = NoId THEN "NoTransportForSocket"
    ELSE IF Get(socketToTransport, c) = NoId THEN "NoTransportForSocket"
    ELSE IF ~Has(transports, socketToTransport[c]) THEN "TransportNotFound"
    ELSE IF ~engineOk THEN "EngineError"
    ELSE ""

\* socket.on('produce'): the automatic data producer is created when kind is video, the
\* transport of socketToTransportId is in the transports map (its sctpState is set, since
\* every transport is created with enableSctp) and transport.produceData does not throw
AutoDataProducer(c, kind, dataOk) ==
    kind = "video" /\ Has(transports, socketToTransportId[c]) /\ dataOk

\* socket.on('produce') that emits newProducer for the id to come before the engine call
Produce_NotifiesFirst(c, kind, engineOk, dataOk) ==
    /\ Ready(c)
    /\ LET err == ProduceError(c, engineOk)
           id == PId(nP + 1)
           arg == [NoArg EXCEPT !.kind = kind]
       IN  /\ inbox' = BroadcastFrom(c, [type |-> "newProducer", producerId |-> id,
                                         kind |-> kind])
           /\ IF err # ""
              THEN /\ reply' = Record(Answer(c, "produce", arg, "error", err, NoId))
                   /\ UNCHANGED <<producers, socketToStreamId, dataProducers, nP, nD>>
              ELSE /\ nP < scope.producers
                   /\ nP' = nP + 1
                   /\ producers' =
                         MapSet(producers, id, NewProducer(c, kind, socketToTransport[c]))
                   /\ socketToStreamId' = MapSet(socketToStreamId, c, id)
                   /\ IF AutoDataProducer(c, kind, dataOk)
                      THEN /\ nD < scope.dataProducers
                           /\ nD' = nD + 1
                           /\ dataProducers' =
                                 MapSet(dataProducers, ChatKey(id),
                                        NewDataProducer(nD + 1, socketToTransportId[c],
                                                        FALSE))
                      ELSE UNCHANGED <<dataProducers, nD>>
                   /\ reply' = Record(Answer(c, "produce", arg, "ok", "", id))
    /\ UNCHANGED <<conn, transports, socketToTransport, socketToTransportId, nT,
                   observed, scope>>

\* socket.on('produce') in which a failure of the automatic data producer is not caught
\* apart: it reaches the outer catch, which answers with an error and emits nothing
Produce_DataFailureFails(c, kind, engineOk, dataOk) ==
    /\ Ready(c)
    /\ LET err == ProduceError(c, engineOk)
           id == PId(nP + 1)
           arg == [NoArg EXCEPT !.kind = kind]
       IN  IF err # ""
           THEN /\ reply' = Record(Answer(c, "produce", arg, "error", err, NoId))
                /\ UNCHANGED <<producers, socketToStreamId, dataProducers, nP, nD, inbox>>
           ELSE /\ nP < scope.producers
                /\ nP' = nP + 1
                /\ producers' =
                      MapSet(producers, id, NewProducer(c, kind, socketToTransport[c]))
                /\ socketToStreamId' = MapSet(socketToStreamId, c, id)
                /\ IF AutoDataProducer(c, kind, dataOk)
                   THEN /\ nD < scope.dataProducers
                        /\ nD' = nD + 1
                        /\ dataProducers' =
                              MapSet(dataProducers, ChatKey(id),
                                     NewDataProducer(nD + 1, socketToTransportId[c], FALSE))
                   ELSE UNCHANGED <<dataProducers, nD>>
                /\ IF kind = "video" /\ ~AutoDataProducer(c, kind, dataOk)
                   THEN /\ inbox' = inbox
                        /\ reply' = Record(Answer(c, "produce", arg, "error",
                                                   "EngineError", NoId))
                   ELSE /\ inbox' = BroadcastFrom(c, [type |-> "newProducer",
                                                      producerId |-> id, kind |-> kind])
                        /\ reply' = Record(Answer(c, "produce", arg, "ok", "", id))
    /\ UNCHANGED <<conn, transports, socketToTransport, socketToTransportId, nT,
                   observed, scope>>

\* socket.on('produce')
Produce(c, kind, engineOk, dataOk) ==
    /\ Ready(c)
    /\ LET err == ProduceError(c, engineOk)
           id == PId(nP + 1)
           arg == [NoArg EXCEPT !.kind = kind]
       IN  IF err # ""
           THEN /\ reply' = Record(Answer(c, "produce", arg, "error", err, NoId))
                /\ UNCHANGED <<producers, socketToStreamId, dataProducers, nP, nD, inbox>>
           ELSE /\ nP < scope.producers
                /\ nP' = nP + 1
                /\ producers' =
                      MapSet(producers, id, NewProducer(c, kind, socketToTransport[c]))
                /\ socketToStreamId' = MapSet(socketToStreamId, c, id)
                /\ IF AutoDataProducer(c, kind, dataOk)
                   THEN /\ nD < scope.dataProducers
                        /\ nD' = nD + 1
                        /\ dataProducers' =
                              MapSet(dataProducers, ChatKey(id),
                                     NewDataProducer(nD + 1, socketToTransportId[c], FALSE))
                   ELSE UNCHANGED <<dataProducers, nD>>
                /\ inbox' = BroadcastFrom(c, [type |-> "newProducer", producerId |-> id,
                                              kind |-> kind])
                /\ reply' = Record(Answer(c, "produce", arg, "ok", "", id))
    /\ UNCHANGED <<conn, transports, socketToTransport, socketToTransportId, nT,
                   observed, scope>>

\* socket.on('consume') with a catch block that closes the transport it was given
Consume_ErrorClosesTransport(c, transportId, producerId, canConsume, engineOk) ==
    /\ Ready(c)
    /\ LET out == ConsumeOutcome(transportId, producerId, canConsume, engineOk)
           arg == [NoArg EXCEPT !.transportId = transportId, !.producerId = producerId]
       IN  /\ reply' = IF out = "ok"
                       THEN Record(Answer(c, "consume", arg, "ok", "", producerId))
                       ELSE Record(Answer(c, "consume", arg, "error", out, NoId))
           /\ transports' = IF out = "ok" THEN transports
                            ELSE MapDelete(transports, transportId)
    /\ UNCHANGED <<conn, socketToTransport, socketToStreamId, producers, dataProducers,
                   socketToTransportId, ids, inbox, observed, scope>>

\* socket.on('consume') whose catch block only logs when the engine call has thrown
Consume_SilentOnEngineFailure(c, transportId, producerId, canConsume, engineOk) ==
    /\ Ready(c)
    /\ LET out == ConsumeOutcome(transportId, producerId, canConsume, engineOk)
           arg == [NoArg EXCEPT !.transportId = transportId, !.producerId = producerId]
       IN  reply' = IF out = "ok"
                    THEN Record(Answer(c, "consume", arg, "ok", "", producerId))
                    ELSE IF out = "EngineError" THEN Quiet
                    ELSE Record(Answer(c, "consume", arg, "error", out, NoId))
    /\ UNCHANGED <<conn, directory, ids, inbox, observed, scope>>

\* socket.on('consume')
Consume(c, transportId, producerId, canConsume, engineOk) ==
    /\ Ready(c)
    /\ LET out == ConsumeOutcome(transportId, producerId, canConsume, engineOk)
           arg == [NoArg EXCEPT !.transportId = transportId, !.producerId = producerId]
       IN  reply' = IF out = "ok"
                    THEN Record(Answer(c, "consume", arg, "ok", "", producerId))
                    ELSE Record(Answer(c, "consume", arg, "error", out, NoId))
    /\ UNCHANGED <<conn, directory, ids, inbox, observed, scope>>

\* the producer lists the connections have received in answers to getProducers
Lists == {<<c, i>> \in Conn \X (1 .. MaxProducers + MaxLists) :
             i <= Len(inbox[c]) /\ inbox[c][i].type = "producers"}

\* socket.on('getProducers'): callback(producers); when "lists" is observed the list
\* is also kept with what the connection has received
GetProducers(c) ==
    /\ Ready(c)
    /\ reply' = Record([Answer(c, "getProducers", NoArg, "ok", "", NoId)
                           EXCEPT !.list = GetProducersList])
    /\ IF "lists" \in observed
       THEN /\ Cardinality(Lists) < MaxLists
            /\ inbox' = [inbox EXCEPT ![c] =
                            Append(@, [type |-> "producers", producerId |-> NoId,
                                       kind |-> "",
                                       list |-> {e.id : e \in GetProducersList}])]
       ELSE UNCHANGED inbox
    /\ UNCHANGED <<conn, directory, ids, observed, scope>>

\* socket.on('consumeData'): the answer, given the engine's answer to transport.consumeData
ConsumeDataOutcome(c, key, engineOk) ==
    IF Get(socketToTransportId, c) = NoId THEN "NoTransportForSocket"
    ELSE IF ~Has(transports, socketToTransportId[c]) THEN "TransportNotFound"
    ELSE IF ~Has(dataProducers, key)
         THEN IF EndsWithData(key) THEN "fallback" ELSE "DataProducerNotFound"
    ELSE IF dataProducers[key].closed \/ ~engineOk THEN "EngineError"
    ELSE "ok"

\* a consumeData handler that drops the entry of a data producer it finds closed
ConsumeData_DropsClosed(c, key, engineOk) ==
    /\ Ready(c)
    /\ LET out == ConsumeDataOutcome(c, key, engineOk)
           arg == [NoArg EXCEPT !.key = key]
       IN  /\ reply' = CASE out = "ok" ->
                              Record(Answer(c, "consumeData", arg, "ok", "",
                                            dataProducers[key].id))
                         [] out = "fallback" ->
                              Record(Answer(c, "consumeData", arg, "fallback", "", NoId))
                         [] OTHER ->
                              Record(Answer(c, "consumeData", arg, "error", out, NoId))
           /\ dataProducers' = IF Has(dataProducers, key) /\ dataProducers[key].closed
                               THEN MapDelete(dataProducers, key)
                               ELSE dataProducers
    /\ UNCHANGED <<conn, transports, socketToTransport, socketToStreamId, producers,
                   socketToTransportId, ids, inbox, observed, scope>>

\* socket.on('consumeData')
ConsumeData(c, key, engineOk) ==
    /\ Ready(c)
    /\ LET out == ConsumeDataOutcome(c, key, engineOk)
           arg == [NoArg EXCEPT !.key = key]
       IN  reply' = CASE out = "ok" ->
                           Record(Answer(c, "consumeData", arg, "ok", "",
                                         dataProducers[key].id))
                      [] out = "fallback" ->
                           Record(Answer(c, "consumeData", arg, "fallback", "", NoId))
                      [] OTHER ->
                           Record(Answer(c, "consumeData", arg, "error", out, NoId))
    /\ UNCHANGED <<conn, directory, ids, inbox, observed, scope>>

\* socket.on('produceData') up to the engine call: the error, if any
ProduceDataError(c, engineOk) ==
    IF Get(socketToTransportId, c) = NoId THEN "NoTransportForSocket"
    ELSE IF ~Has(transports, socketToTransportId[c]) THEN "TransportNotFound"
    ELSE IF ~engineOk THEN "EngineError"
    ELSE ""

\* socket.on('produceData') that registers only under a key that is not taken
ProduceData_KeepsExisting(c, engineOk) ==
    /\ Ready(c)
    /\ LET err == ProduceDataError(c, engineOk)
           dp == NewDataProducer(nD + 1, socketToTransportId[c],
                                 Has(socketToStreamId, c))
           key == IF Has(socketToStreamId, c) THEN ChatKey(socketToStreamId[c])
                  ELSE RawKey(dp.id)
       IN  IF err # ""
           THEN /\ reply' = Record(Answer(c, "produceData", NoArg, "error", err, NoId))
                /\ UNCHANGED <<dataProducers, nD>>
           ELSE /\ nD < scope.dataProducers
                /\ nD' = nD + 1
                /\ dataProducers' = IF Has(dataProducers, key) THEN dataProducers
                                    ELSE MapSet(dataProducers, key, dp)
                /\ reply' = Record(Answer(c, "produceData", NoArg, "ok", "", dp.id))
    /\ UNCHANGED <<conn, transports, socketToTransport, socketToStreamId, producers,
                   socketToTransportId, nT, nP, inbox, observed, scope>>

\* socket.on('produceData')
ProduceData(c, engineOk) ==
    /\ Ready(c)
    /\ LET err == ProduceDataError(c, engineOk)
           dp == NewDataProducer(nD + 1, socketToTransportId[c],
                                 Has(socketToStreamId, c))
       IN  IF err # ""
           THEN /\ reply' = Record(Answer(c, "produceData", NoArg, "error", err, NoId))
                /\ UNCHANGED <<dataProducers, nD>>
           ELSE /\ nD < scope.dataProducers
                /\ nD' = nD + 1
                /\ dataProducers' =
                      IF Has(socketToStreamId, c)
                      THEN MapSet(dataProducers, ChatKey(socketToStreamId[c]), dp)
                      ELSE MapSet(dataProducers, RawKey(dp.id), dp)
                /\ reply' = Record(Answer(c, "produceData", NoArg, "ok", "", dp.id))
    /\ UNCHANGED <<conn, transports, socketToTransport, socketToStreamId, producers,
                   socketToTransportId, nT, nP, inbox, observed, scope>>

\* socket.on('getRouterRtpCapabilities'): getRtpCapabilities() throws only without a
\* router, and the server listens after init() has created it
GetRouterRtpCapabilities(c) ==
    /\ Ready(c)
    /\ reply' = Record(Answer(c, "getRouterRtpCapabilities", NoArg, "ok", "", NoId))
    /\ UNCHANGED <<conn, directory, ids, inbox, observed, scope>>

\* socket.on('connectProducerTransport') and MediasoupServer.connectTransport: the error,
\* if any; engineOk is the outcome of transport.connect
ConnectProducerTransportError(c, engineOk) ==
    IF Get(socketToTransportId, c) = NoId THEN "NoTransportForSocket"
    ELSE IF Get(socketToTransport, c) = NoId THEN "NoTransportForSocket"
    ELSE IF ~Has(transports, socketToTransport[c]) THEN "TransportNotFound"
    ELSE IF ~engineOk THEN "EngineError"
    ELSE ""

\* socket.on('connectProducerTransport')
ConnectProducerTransport(c, engineOk) ==
    /\ Ready(c)
    /\ LET err == ConnectProducerTransportError(c, engineOk)
       IN  /\ reply' = IF err = ""
                        THEN Record(Answer(c, "connectProducerTransport", NoArg, "ok",
                                           "", NoId))
                        ELSE Record(Answer(c, "connectProducerTransport", NoArg,
                                           "error", err, NoId))
           /\ transports' = IF err = "" THEN WithDtls(socketToTransport[c], "connected")
                            ELSE transports
    /\ UNCHANGED <<conn, socketToTransport, socketToStreamId, producers, dataProducers,
                   socketToTransportId, ids, inbox, observed, scope>>

\* socket.on('connectConsumerTransport'): the transport is looked up by the id the client
\* sent
ConnectConsumerTransport(c, transportId, engineOk) ==
    /\ Ready(c)
    /\ LET arg == [NoArg EXCEPT !.transportId = transportId]
           err == IF ~Has(transports, transportId) THEN "TransportNotFound"
                  ELSE IF ~engineOk THEN "EngineError"
                  ELSE ""
       IN  /\ reply' = IF err = ""
                        THEN Record(Answer(c, "connectConsumerTransport", arg, "ok", "",
                                           NoId))
                        ELSE Record(Answer(c, "connectConsumerTransport", arg, "error",
                                           err, NoId))
           /\ transports' = IF err = "" THEN WithDtls(transportId, "connected")
                            ELSE transports
    /\ UNCHANGED <<conn, socketToTransport, socketToStreamId, producers, dataProducers,
                   socketToTransportId, ids, inbox, observed, scope>>

\* transport.on('dtlsstatechange') with dtlsState 'failed': the listener logs
DtlsFailed(t) ==
    /\ reply.res = "none"
    /\ Has(transports, t)
    /\ "dtls" \in observed
    /\ transports[t].dtls # "failed"
    /\ transports' = WithDtls(t, "failed")
    /\ UNCHANGED <<conn, socketToTransport, socketToStreamId, producers, dataProducers,
                   socketToTransportId, ids, inbox, reply, observed, scope>>

\* socket.on('disconnect') that emits producerClosed for the producers of the socket's
\* transport to every other connected socket
Disconnect_NotifiesClosed(c) ==
    /\ Ready(c)
    /\ conn' = [conn EXCEPT ![c] = "disconnected"]
    /\ socketToTransportId' = MapDelete(socketToTransportId, c)
    /\ Cleanup(c)
    /\ inbox' = [d \in Conn |->
                    IF d # c /\ conn[d] = "connected" /\ "notifications" \in observed
                    THEN IF \E p \in DOMAIN producers \ DOMAIN producers' : TRUE
                         THEN Append(inbox[d],
                                     [type |-> "producerClosed", kind |-> "",
                                      producerId |->
                                         CHOOSE p \in DOMAIN producers
                                                          \ DOMAIN producers' : TRUE])
                         ELSE inbox[d]
                    ELSE inbox[d]]
    /\ UNCHANGED <<ids, reply, observed, scope>>

\* a disconnect handler that calls cleanup and leaves the handlers' own map alone
Disconnect_KeepsHandlerMap(c) ==
    /\ Ready(c)
    /\ conn' = [conn EXCEPT ![c] = "disconnected"]
    /\ Cleanup(c)
    /\ UNCHANGED <<socketToTransportId, ids, inbox, reply, observed, scope>>

\* socket.on('disconnect'): socketToTransportId.delete(socket.id); cleanup(socket.id).
\* Nothing is emitted to the other sockets.
Disconnect(c) ==
    /\ Ready(c)
    /\ conn' = [conn EXCEPT ![c] = "disconnected"]
    /\ socketToTransportId' = MapDelete(socketToTransportId, c)
    /\ Cleanup(c)
    /\ UNCHANGED <<ids, inbox, reply, observed, scope>>

\* MediasoupServer.cleanup(socketId) called once more for a socket whose disconnect
\* handler has run, or called for a socket that has no transport; the outcome of the call
\* (it returns) is recorded as an answer
CleanupCall(c) ==
    /\ reply.res = "none"
    /\ c <= scope.conns
    /\ conn[c] = "disconnected" \/ Get(socketToTransportId, c) = NoId
    /\ Cleanup(c)
    /\ reply' = Record(Answer(c, "cleanup", NoArg, "ok", "", NoId))
    /\ UNCHANGED <<conn, socketToTransportId, ids, inbox, observed, scope>>

\* a closeAll that closes the transports and clears the transports and producers maps
\* only
CloseAllCall_KeepsSocketMap ==
    /\ reply.res = "none"
    /\ transports' = <<>>
    /\ producers' = <<>>
    /\ dataProducers' = DataProducersAfterTransportClose(dataProducers, DOMAIN transports)
    /\ reply' = Record(Answer(0, "closeAll", NoArg, "ok", "", NoId))
    /\ UNCHANGED <<conn, socketToTransport, socketToStreamId, socketToTransportId, ids,
                   inbox, observed, scope>>

\* MediasoupServer.closeAll(): transport.close() for every transport (the listeners of
\* its producers and data producers run), then transports.clear(),
\* socketToTransport.clear(), producers.clear(); the outcome of the call (it returns) is
\* recorded as an answer.  It also closes the worker, after which the engine rejects
\* every call: those are the behaviours in which every later engineOk is FALSE
CloseAllCall ==
    /\ reply.res = "none"
    /\ transports' = <<>>
    /\ socketToTransport' = <<>>
    /\ producers' = <<>>
    /\ dataProducers' = DataProducersAfterTransportClose(dataProducers, DOMAIN transports)
    /\ reply' = Record(Answer(0, "closeAll", NoArg, "ok", "", NoId))
    /\ UNCHANGED <<conn, socketToStreamId, socketToTransportId, ids, inbox, observed,
                   scope>>

\* the client's acknowledgement callback runs: the answer has been delivered
Deliver ==
    /\ reply.res # "none"
    /\ reply' = Quiet
    /\ UNCHANGED <<conn, directory, ids, inbox, observed, scope>>

\* ------------------------------------------------------ suspended handlers
\* A handler that awaits a call of the media engine is suspended there, and the handlers
\* of other events run before it resumes.  Each one below is cut at its awaits: the part
\* up to the await, and the part from the completion of the call to the next await or to
\* the end.  A client awaits the answer to its request before it sends the next one, so a
\* connection has at most one suspended handler.
Suspended(c, req, at, kind, transportId, via, id) ==
    [socket |-> c, req |-> req, at |-> at, kind |-> kind, transportId |-> transportId,
     via |-> via, id |-> id]
Idle(c) == \A s \in pending : s.socket # c

\* the callback of a handler that resumes: the answer leaves if the socket is still there
RecordFor(c, answer) == IF conn[c] = "connected" THEN Record(answer) ELSE Quiet

\* socket.on('createProducerTransport') / socket.on('createConsumerTransport') up to
\* `await this.router.createWebRtcTransport(...)` in createWebRtcTransport(socket.id)
CreateTransportBegin(c, role) ==
    /\ Ready(c)
    /\ Idle(c)
    /\ pending' = pending \cup
                     {Suspended(c, "createTransport", "createWebRtcTransport", role,
                                NoId, NoId, NoId)}
    /\ UNCHANGED <<conn, directory, ids, inbox, reply, observed, scope>>

\* router.createWebRtcTransport has completed: this.transports.set,
\* this.socketToTransport.set, then in the handler socketToTransportId.set and callback
CreateTransportResume(s, engineOk) ==
    /\ s \in pending
    /\ s.req = "createTransport"
    /\ reply.res = "none"
    /\ pending' = pending \ {s}
    /\ IF engineOk
       THEN /\ nT < MaxTransports
            /\ nT' = nT + 1
            /\ transports' = MapSet(transports, TId(nT + 1), NewTransport(s.socket, s.kind))
            /\ socketToTransport' = MapSet(socketToTransport, s.socket, TId(nT + 1))
            /\ socketToTransportId' = MapSet(socketToTransportId, s.socket, TId(nT + 1))
            /\ reply' = RecordFor(s.socket,
                                  Answer(s.socket, "createTransport",
                                         [NoArg EXCEPT !.kind = s.kind], "ok", "",
                                         TId(nT + 1)))
       ELSE /\ reply' = RecordFor(s.socket,
                                  Answer(s.socket, "createTransport",
                                         [NoArg EXCEPT !.kind = s.kind], "error",
                                         "FailedToCreateTransport", NoId))
            /\ UNCHANGED <<transports, socketToTransport, socketToTransportId, nT>>
    /\ UNCHANGED <<conn, socketToStreamId, producers, dataProducers, nP, nD, inbox,
                   observed, scope>>

\* socket.on('produce') up to `await transport.produce({ kind, rtpParameters })` in
\* MediasoupServer.produce: the lookups of the socket's transport, which answer with an
\* error when one fails
ProduceBegin(c, kind) ==
    /\ Ready(c)
    /\ Idle(c)
    /\ LET err == ProduceError(c, TRUE)
       IN  IF err # ""
           THEN /\ reply' = Record(Answer(c, "produce", [NoArg EXCEPT !.kind = kind],
                                          "error", err, NoId))
                /\ UNCHANGED pending
           ELSE /\ pending' = pending \cup
                                 {Suspended(c, "produce", "produce", kind,
                                            socketToTransportId[c], socketToTransport[c],
                                            NoId)}
                /\ UNCHANGED reply
    /\ UNCHANGED <<conn, directory, ids, inbox, observed, scope>>

\* the end of socket.on('produce'): socket.broadcast.emit('newProducer') and callback
ProduceEnd(s, id) ==
    /\ inbox' = BroadcastFrom(s.socket, [type |-> "newProducer", producerId |-> id,
                                         kind |-> s.kind])
    /\ reply' = RecordFor(s.socket, Answer(s.socket, "produce",
                                           [NoArg EXCEPT !.kind = s.kind], "ok", "", id))

\* transport.produce has completed: this.producers.set, this.socketToStreamId.set and the
\* listeners; then the handler, for a video producer whose transport is in the transports
\* map, goes on to `await transport.produceData(...)`, and otherwise to its end.  The
\* engine completes the call also for a transport that was closed in between
ProduceResume(s, engineOk) ==
    /\ s \in pending
    /\ s.req = "produce" /\ s.at = "produce"
    /\ reply.res = "none"
    /\ IF ~engineOk
       THEN /\ pending' = pending \ {s}
            /\ reply' = RecordFor(s.socket,
                                  Answer(s.socket, "produce",
                                         [NoArg EXCEPT !.kind = s.kind], "error",
                                         "EngineError", NoId))
            /\ UNCHANGED <<producers, socketToStreamId, nP, inbox>>
       ELSE /\ nP < scope.producers
            /\ nP' = nP + 1
            /\ producers' = MapSet(producers, PId(nP + 1),
                                   NewProducer(s.socket, s.kind, s.via))
            /\ socketToStreamId' = MapSet(socketToStreamId, s.socket, PId(nP + 1))
            /\ IF s.kind = "video" /\ Has(transports, s.transportId)
               THEN /\ pending' = (pending \ {s}) \cup
                                     {[s EXCEPT !.at = "produceData", !.id = PId(nP + 1)]}
                    /\ UNCHANGED <<inbox, reply>>
               ELSE /\ pending' = pending \ {s}
                    /\ ProduceEnd(s, PId(nP + 1))
    /\ UNCHANGED <<conn, transports, socketToTransport, socketToTransportId, dataProducers,
                   nT, nD, observed, scope>>

\* transport.produceData has completed in socket.on('produce'): addDataProducer under
\* `${id}-data` unless it threw, then the end of the handler
ProduceDataResume(s, dataOk) ==
    /\ s \in pending
    /\ s.req = "produce" /\ s.at = "produceData"
    /\ reply.res = "none"
    /\ pending' = pending \ {s}
    /\ IF dataOk
       THEN /\ nD < scope.dataProducers
            /\ nD' = nD + 1
            /\ dataProducers' = MapSet(dataProducers, ChatKey(s.id),
                                       NewDataProducer(nD + 1, s.transportId, FALSE))
       ELSE UNCHANGED <<dataProducers, nD>>
    /\ ProduceEnd(s, s.id)
    /\ UNCHANGED <<conn, transports, socketToTransport, socketToStreamId, producers,
                   socketToTransportId, nT, nP, observed, scope>>

\* ----------------------------------------------------------------- clients
\* the client's program moves on
At(c, program, pc) == client[c].program = program /\ client[c].pc = pc
Goto(c, pc) == [client EXCEPT ![c].pc = pc]

\* stream-client handleConnect -> WebRTCService.connect: io(config.serverUrl)
PublisherConnect(c) ==
    /\ Connect(c)
    /\ client' = [client EXCEPT ![c] = [NoClient EXCEPT !.program = "publisher",
                                                        !.pc = "connected"]]
    /\ UNCHANGED <<messages, outbox, wire, nM>>

\* WebRTCService.createSendTransport: emit('createProducerTransport')
PublisherCreateTransport(c, engineOk) ==
    /\ At(c, "publisher", "connected")
    /\ CreateTransport(c, "publish", engineOk)
    /\ client' = Goto(c, "waiting")
    /\ UNCHANGED <<messages, outbox, wire, nM>>

\* WebRTCService.startStreaming: producerTransport.produce of the video track, which
\* emits 'produce' with kind video
PublisherProduce(c, engineOk, dataOk) ==
    /\ At(c, "publisher", "transport")
    /\ Produce(c, "video", engineOk, dataOk)
    /\ client' = Goto(c, "waiting")
    /\ UNCHANGED <<messages, outbox, wire, nM>>

\* WebRTCService.setupDataChannel: emit('consumeData') for `${videoProducer.id}-data`
PublisherSetupDataChannel(c, engineOk) ==
    /\ At(c, "publisher", "streaming")
    /\ ConsumeData(c, ChatKey(client[c].stream), engineOk)
    /\ client' = Goto(c, "waiting")
    /\ UNCHANGED <<messages, outbox, wire, nM>>

\* StreamViewer mounted with streamId (a stream of the list): io('http://localhost:3001')
ViewerConnect(c, streamId) ==
    /\ Connect(c)
    /\ client' = [client EXCEPT ![c] = [NoClient EXCEPT !.program = "viewer",
                                                        !.pc = "connected",
                                                        !.stream = streamId]]
    /\ UNCHANGED <<messages, outbox, wire, nM>>

\* StreamViewer init: emit('createConsumerTransport')
ViewerCreateTransport(c, engineOk) ==
    /\ At(c, "viewer", "connected")
    /\ CreateTransport(c, "subscribe", engineOk)
    /\ client' = Goto(c, "waiting")
    /\ UNCHANGED <<messages, outbox, wire, nM>>

\* StreamViewer init: emit('consume', { transportId, producerId: streamId, ... })
ViewerConsume(c, canConsume, engineOk) ==
    /\ At(c, "viewer", "transport")
    /\ Consume(c, client[c].transport, client[c].stream, canConsume, engineOk)
    /\ client' = Goto(c, "waiting")
    /\ UNCHANGED <<messages, outbox, wire, nM>>

\* StreamViewer setupDataConsumer: emit('consumeData') for `${streamId}-data`
ViewerSetupDataConsumer(c, engineOk) ==
    /\ At(c, "viewer", "consuming")
    /\ ConsumeData(c, ChatKey(client[c].stream), engineOk)
    /\ client' = Goto(c, "waiting")
    /\ UNCHANGED <<messages, outbox, wire, nM>>

\* the client as the acknowledgement callback of its request leaves it; clientOk is the
\* outcome of the viewer's consumerTransport.consumeData
AfterCallback(c, clientOk) ==
    LET me == client[c]
        ok == reply.res = "ok"
    IN  CASE me.program = "publisher" /\ reply.req = "createTransport" ->
               [me EXCEPT !.pc = IF ok THEN "transport" ELSE "failed"]
          [] me.program = "publisher" /\ reply.req = "produce" ->
               IF ok THEN [me EXCEPT !.pc = "streaming", !.stream = reply.id]
               ELSE [me EXCEPT !.pc = "failed"]
          [] me.program = "publisher" /\ reply.req = "consumeData" ->
               [me EXCEPT !.pc = "ready"]
          [] me.program = "viewer" /\ reply.req = "createTransport" ->
               IF ok THEN [me EXCEPT !.pc = "transport", !.transport = reply.id]
               ELSE [me EXCEPT !.pc = "failed"]
          [] me.program = "viewer" /\ reply.req = "consume" ->
               [me EXCEPT !.pc = IF ok THEN "consuming" ELSE "failed"]
          [] me.program = "viewer" /\ reply.req = "consumeData" ->
               IF ok /\ clientOk
               THEN [me EXCEPT !.pc = "ready", !.dataConsumer = reply.id]
               ELSE [me EXCEPT !.pc = "ready"]
          [] OTHER -> me

\* the acknowledgement callback of the request in flight runs in the client
Callback(clientOk) ==
    /\ reply.res # "none"
    /\ reply' = Quiet
    /\ client' = [client EXCEPT ![reply.socket] = AfterCallback(reply.socket, clientOk)]
    /\ UNCHANGED <<conn, directory, ids, inbox, observed, scope, messages, outbox,
                   wire, nM>>

\* ------------------------------------------------- the publisher in detail
\* The publisher program with every round trip of handleConnect: WebRTCService.connect
\* (getRouterRtpCapabilities, createProducerTransport), startStreaming
\* (connectProducerTransport, produce) and setupDataChannel (consumeData), the timers of
\* connect and the App states.  A request is handled when it is emitted; its answer
\* reaches the client in ServiceCallback, or never does (AnswerLost).
Service(c) == client[c].program = "service"
Settle(me, outcome) == IF me.promise = "pending" THEN outcome ELSE me.promise

\* handleConnect: setConnecting(true), webRTCService.connect(config): io(serverUrl), the
\* promise is created and the timer of the whole connection process is set
ServiceStart(c) ==
    /\ client[c].program = "none"
    /\ conn[c] = "new"
    /\ c <= scope.conns
    /\ client' = [client EXCEPT ![c] = [NoClient EXCEPT !.program = "service",
                                                        !.pc = "connecting",
                                                        !.promise = "pending",
                                                        !.connectTimer = "set"]]
    /\ UNCHANGED <<conn, directory, ids, inbox, reply, observed, scope, messages,
                   outbox, wire, nM>>

\* socket.on('connect_error') / 'error' / 'connect_timeout': reject; handleConnect's catch
\* sets connected to false
ServiceConnectError(c) ==
    /\ At(c, "service", "connecting")
    /\ client' = [client EXCEPT ![c].pc = "failed",
                                ![c].promise = Settle(client[c], "rejected")]
    /\ UNCHANGED <<conn, directory, ids, inbox, reply, observed, scope, messages,
                   outbox, wire, nM>>

\* the socket connects: io.on('connection') on the server, 'connect' in the client
ServiceOnConnect(c) ==
    /\ At(c, "service", "connecting")
    /\ Connect(c)
    /\ client' = Goto(c, "socket")
    /\ UNCHANGED <<messages, outbox, wire, nM>>

\* on 'connect': emit('getRouterRtpCapabilities') and setTimeout(reject, 5000)
ServiceGetCapabilities(c) ==
    /\ At(c, "service", "socket")
    /\ GetRouterRtpCapabilities(c)
    /\ client' = [client EXCEPT ![c].pc = "capabilities", ![c].capsTimer = "set"]
    /\ UNCHANGED <<messages, outbox, wire, nM>>

\* createSendTransport: emit('createProducerTransport'), no timer
ServiceCreateTransport(c, engineOk) ==
    /\ At(c, "service", "loaded")
    /\ CreateTransport(c, "publish", engineOk)
    /\ client' = Goto(c, "createTransport")
    /\ UNCHANGED <<messages, outbox, wire, nM>>

\* startStreaming: createStreamFromFile rejects, or there is no video track: it throws
\* and handleConnect's catch sets connected to false
ServiceStreamFails(c) ==
    /\ At(c, "service", "ready")
    /\ client[c].connected
    /\ client' = [client EXCEPT ![c].pc = "failed", ![c].connected = FALSE]
    /\ UNCHANGED <<conn, directory, ids, inbox, reply, observed, scope, messages,
                   outbox, wire, nM>>

\* startStreaming: producerTransport.produce fires the transport's 'connect' event:
\* emit('connectProducerTransport'), no timer
ServiceConnectTransport(c, engineOk) ==
    /\ At(c, "service", "ready")
    /\ client[c].connected
    /\ ConnectProducerTransport(c, engineOk)
    /\ client' = Goto(c, "connectTransport")
    /\ UNCHANGED <<messages, outbox, wire, nM>>

\* then its 'produce' event: emit('produce') with kind video, no timer
ServiceProduce(c, engineOk, dataOk) ==
    /\ At(c, "service", "transportConnected")
    /\ Produce(c, "video", engineOk, dataOk)
    /\ client' = Goto(c, "produce")
    /\ UNCHANGED <<messages, outbox, wire, nM>>

\* handleConnect after setStreamStarted(true): setupDataChannel with the video producer
\* there: emit('consumeData') for `${videoProducer.id}-data`; it does not await the answer
ServiceSetupDataChannel(c, engineOk) ==
    /\ At(c, "service", "streaming")
    /\ client[c].poll = "off"
    /\ ConsumeData(c, ChatKey(client[c].stream), engineOk)
    /\ client' = [client EXCEPT ![c].pc = "done", ![c].emitted = @ + 1]
    /\ UNCHANGED <<messages, outbox, wire, nM>>

\* setupDataChannel called while this.videoProducer is not set: it starts the interval
\* that polls every 100 ms
ServiceSetupEarly(c) ==
    /\ Service(c)
    /\ client[c].pc # "closed"
    /\ client[c].stream = NoId
    /\ client[c].poll = "off"
    /\ client' = [client EXCEPT ![c].poll = "polling"]
    /\ UNCHANGED <<conn, directory, ids, inbox, reply, observed, scope, messages,
                   outbox, wire, nM>>

\* the interval's callback that gives up at the first attempt
PollTick_GivesUpAtOnce(c, engineOk) ==
    /\ Service(c)
    /\ client[c].poll = "polling"
    /\ client' = [client EXCEPT ![c].attempts = @ + 1, ![c].poll = "timedOut"]
    /\ UNCHANGED <<conn, directory, ids, inbox, reply, observed, scope, messages,
                   outbox, wire, nM>>

\* the interval's callback: attempts++; with the video producer there, clearInterval and
\* resolve, and setupDataChannel goes on to emit('consumeData'); at maxAttempts,
\* clearInterval and reject, and setupDataChannel returns
PollTick(c, engineOk) ==
    /\ Service(c)
    /\ client[c].poll = "polling"
    /\ IF client[c].stream # NoId
       THEN /\ client' = [client EXCEPT ![c].attempts = @ + 1, ![c].poll = "resolved",
                                        ![c].emitted = @ + 1]
            /\ IF conn[c] = "connected"
               THEN ConsumeData(c, ChatKey(client[c].stream), engineOk)
               ELSE UNCHANGED <<conn, directory, ids, inbox, reply, observed, scope>>
       ELSE /\ client' = [client EXCEPT
                             ![c].attempts = @ + 1,
                             ![c].poll = IF client[c].attempts + 1 >= maxAttempts
                                         THEN "timedOut" ELSE "polling"]
            /\ UNCHANGED <<conn, directory, ids, inbox, reply, observed, scope>>
    /\ UNCHANGED <<messages, outbox, wire, nM>>

\* a handleConnect whose chat setup awaits the consumeData answer and lets its failure
\* reach the outer catch
AfterServiceCallback_ChatFailureFatal(c, deviceOk) ==
    LET me == client[c]
        ok == reply.res = "ok"
    IN  CASE reply.req = "getRouterRtpCapabilities" /\ me.pc = "capabilities" ->
               IF deviceOk THEN [me EXCEPT !.pc = "loaded"]
               ELSE [me EXCEPT !.pc = "failed", !.promise = Settle(me, "rejected")]
          [] reply.req = "createTransport" /\ me.pc = "createTransport" ->
               IF ok
               THEN [me EXCEPT !.pc = "ready", !.promise = Settle(me, "resolved"),
                               !.connected = (me.promise = "pending")]
               ELSE [me EXCEPT !.pc = "failed", !.promise = Settle(me, "rejected")]
          [] reply.req = "connectProducerTransport" /\ me.pc = "connectTransport" ->
               IF ok THEN [me EXCEPT !.pc = "transportConnected"]
               ELSE [me EXCEPT !.pc = "failed", !.connected = FALSE]
          [] reply.req = "produce" /\ me.pc = "produce" ->
               IF ok
               THEN [me EXCEPT !.pc = "streaming", !.stream = reply.id,
                               !.streamStarted = TRUE]
               ELSE [me EXCEPT !.pc = "failed", !.connected = FALSE]
          [] reply.req = "consumeData" /\ ~ok ->
               [me EXCEPT !.pc = "failed", !.connected = FALSE]
          [] OTHER -> me

\* the client as the acknowledgement callback of its request leaves it; deviceOk is the
\* outcome of device.load
AfterServiceCallback(c, deviceOk) ==
    LET me == client[c]
        ok == reply.res = "ok"
    IN  CASE reply.req = "getRouterRtpCapabilities" /\ me.pc = "capabilities" ->
               IF deviceOk THEN [me EXCEPT !.pc = "loaded"]
               ELSE [me EXCEPT !.pc = "failed", !.promise = Settle(me, "rejected")]
          [] reply.req = "createTransport" /\ me.pc = "createTransport" ->
               IF ok
               THEN [me EXCEPT !.pc = "ready", !.promise = Settle(me, "resolved"),
                               !.connected = (me.promise = "pending")]
               ELSE [me EXCEPT !.pc = "failed", !.promise = Settle(me, "rejected")]
          [] reply.req = "connectProducerTransport" /\ me.pc = "connectTransport" ->
               IF ok THEN [me EXCEPT !.pc = "transportConnected"]
               ELSE [me EXCEPT !.pc = "failed", !.connected = FALSE]
          [] reply.req = "produce" /\ me.pc = "produce" ->
               IF ok
               THEN [me EXCEPT !.pc = "streaming", !.stream = reply.id,
                               !.streamStarted = TRUE]
               ELSE [me EXCEPT !.pc = "failed", !.connected = FALSE]
          [] OTHER -> me

\* the acknowledgement callback of the request in flight runs in the client
ServiceCallback(deviceOk) ==
    /\ reply.res # "none"
    /\ Service(reply.socket)
    /\ reply' = Quiet
    /\ client' = [client EXCEPT ![reply.socket] =
                                   AfterServiceCallback(reply.socket, deviceOk)]
    /\ UNCHANGED <<conn, directory, ids, inbox, observed, scope, messages, outbox,
                   wire, nM>>

\* the answer never reaches the client (the server does not answer)
AnswerLost ==
    /\ reply.res # "none"
    /\ Service(reply.socket)
    /\ reply' = Quiet
    /\ UNCHANGED <<conn, directory, ids, inbox, observed, scope, client, messages,
                   outbox, wire, nM>>

\* setTimeout(() => reject(new Error('Timeout waiting for RTP capabilities')), 5000)
ServiceCapabilitiesTimeout(c) ==
    /\ Service(c)
    /\ client[c].capsTimer = "set"
    /\ client' = IF client[c].pc = "capabilities"
                 THEN [client EXCEPT ![c].capsTimer = "fired", ![c].pc = "failed",
                                     ![c].promise = Settle(client[c], "rejected")]
                 ELSE [client EXCEPT ![c].capsTimer = "fired"]
    /\ UNCHANGED <<conn, directory, ids, inbox, reply, observed, scope, messages,
                   outbox, wire, nM>>

\* setTimeout(() => { if (!this.socket?.connected) reject(...) }, 10000)
ServiceConnectTimeout(c) ==
    /\ Service(c)
    /\ client[c].connectTimer = "set"
    /\ client' = IF conn[c] # "connected"
                 THEN [client EXCEPT ![c].connectTimer = "fired",
                                     ![c].promise = Settle(client[c], "rejected")]
                 ELSE [client EXCEPT ![c].connectTimer = "fired"]
    /\ UNCHANGED <<conn, directory, ids, inbox, reply, observed, scope, messages,
                   outbox, wire, nM>>

\* the client goes away (page closed, component unmounted): socket.disconnect(), and on
\* the server socket.on('disconnect'), after the events the socket sent before
ClientDisconnect(c) ==
    /\ client[c].program # "none"
    /\ outbox[c] = <<>>
    /\ Disconnect(c)
    /\ client' = Goto(c, "closed")
    /\ wire' = {w \in wire : w.to # c}
    /\ UNCHANGED <<messages, outbox, nM>>

\* ChatMessage { sender, content, timestamp }: n stands for content and timestamp
Message(c, n) == [sender |-> c, n |-> n]

\* WebRTCService.sendChatMessage emits only with a video producer; StreamViewer.sendMessage
\* emits with its socket
Emits(c) == client[c].program = "viewer" \/ client[c].stream # NoId

\* handleSendMessage (publisher) / sendMessage (viewer): emit('chatMessage', { streamId,
\* message }) and setMessages(prev => [...prev, message])
SendMessage(c) ==
    /\ client[c].program # "none"
    /\ conn[c] = "connected"
    /\ nM < MaxMessages
    /\ nM' = nM + 1
    /\ outbox' = IF Emits(c)
                 THEN [outbox EXCEPT ![c] = Append(@, [streamId |-> client[c].stream,
                                                       message |-> Message(c, nM + 1)])]
                 ELSE outbox
    /\ messages' = [messages EXCEPT ![c] = Append(@, Message(c, nM + 1))]
    /\ UNCHANGED <<conn, directory, ids, inbox, reply, observed, scope, client, wire>>

\* socket.emit('chatMessage', { streamId, message }) by any connected socket, whatever
\* its client is
EmitChat(c, streamId) ==
    /\ conn[c] = "connected"
    /\ nM < MaxMessages
    /\ nM' = nM + 1
    /\ outbox' = [outbox EXCEPT ![c] = Append(@, [streamId |-> streamId,
                                                  message |-> Message(c, nM + 1)])]
    /\ UNCHANGED <<conn, directory, ids, inbox, reply, observed, scope, client,
                   messages, wire>>

\* the publisher's chat form, which the page shows while `connected` is true:
\* handleSendMessage
PublisherChatSend(c) ==
    /\ Service(c)
    /\ client[c].connected
    /\ SendMessage(c)

\* the publisher's socket loses its connection and socket.io reconnects it: the server
\* runs the disconnect handler of the old socket and accepts the new one, which has no
\* entry in any map; in the client the 'connect' listener of WebRTCService.connect runs
\* again and registers one more 'broadcastChatMessage' listener on the same socket.  Its
\* getRouterRtpCapabilities request reads only, and the device.load that follows throws
\* on the loaded device into a catch that rejects the promise already resolved
ServiceReconnect(c) ==
    /\ Service(c)
    /\ client[c].connected
    /\ Ready(c)
    /\ outbox[c] = <<>>
    /\ client[c].reconnects < MaxReconnects
    /\ socketToTransportId' = MapDelete(socketToTransportId, c)
    /\ Cleanup(c)
    /\ client' = [client EXCEPT ![c].reconnects = @ + 1]
    /\ wire' = {w \in wire : w.to # c}
    /\ UNCHANGED <<conn, ids, inbox, reply, observed, scope, messages, outbox, nM>>

\* a 'broadcastChatMessage' reaches the publisher's socket: every listener registered
\* on it calls onChatMessage, which appends the message
ServiceReceive(d) ==
    \E w \in wire :
        /\ Service(d)
        /\ w.to = d
        /\ wire' = wire \ {w}
        /\ messages' = [messages EXCEPT
                           ![d] = @ \o [i \in 1 .. 1 + client[d].reconnects |-> w.message]]
        /\ UNCHANGED <<conn, directory, ids, inbox, reply, observed, scope, client,
                       outbox, nM>>

\* socket.broadcast.emit in the place of io.emit: every connected socket but the sender's
BroadcastPushes_ExceptSender(e) ==
    {[to |-> d, via |-> "broadcast", streamId |-> e.streamId, message |-> e.message] :
        d \in {x \in Conn : conn[x] = "connected" /\ x # e.message.sender}}

\* io.emit('broadcastChatMessage', ...): one push to every connected socket
BroadcastPushes(e) ==
    {[to |-> d, via |-> "broadcast", streamId |-> e.streamId, message |-> e.message] :
        d \in {x \in Conn : conn[x] = "connected"}}

\* dataProducer.send(...): what the engine hands to the data consumers of the data
\* producer registered under the stream's chat key; nothing when there is none, when it is
\* closed (send throws, the handler catches) or when the engine does not relay it
DataPushes(e, relayed) ==
    LET key == ChatKey(e.streamId)
    IN  IF Has(dataProducers, key) /\ ~dataProducers[key].closed /\ relayed
        THEN {[to |-> d, via |-> "data", streamId |-> e.streamId, message |-> e.message] :
                 d \in {x \in Conn : /\ conn[x] = "connected"
                                     /\ client[x].dataConsumer = dataProducers[key].id}}
        ELSE {}

\* a handler that sends through the data producer first and emits the broadcast only
\* when that send went through
ChatMessage_DataFirst(c, relayed) ==
    /\ conn[c] = "connected"
    /\ outbox[c] # <<>>
    /\ outbox' = [outbox EXCEPT ![c] = Tail(@)]
    /\ wire' = LET e == Head(outbox[c])
                   key == ChatKey(e.streamId)
               IN  IF Has(dataProducers, key) /\ ~dataProducers[key].closed
                   THEN wire \cup DataPushes(e, relayed) \cup BroadcastPushes(e)
                   ELSE wire
    /\ UNCHANGED <<conn, directory, ids, inbox, reply, observed, scope, client,
                   messages, nM>>

\* socket.on('chatMessage')
ChatMessage(c, relayed) ==
    /\ conn[c] = "connected"
    /\ outbox[c] # <<>>
    /\ outbox' = [outbox EXCEPT ![c] = Tail(@)]
    /\ wire' = wire \cup BroadcastPushes(Head(outbox[c]))
                    \cup DataPushes(Head(outbox[c]), relayed)
    /\ UNCHANGED <<conn, directory, ids, inbox, reply, observed, scope, client,
                   messages, nM>>

\* the 'broadcastChatMessage' event as the socket of a connection receives it
ChatNote(w) ==
    [type |-> "broadcastChatMessage", producerId |-> w.streamId, kind |-> "",
     message |-> w.message]

\* a viewer whose 'broadcastChatMessage' listener appends whatever it receives
Appends_Unfiltered(d, w) == TRUE

\* what the client does with a push: the publisher's 'broadcastChatMessage' listener
\* calls onChatMessage, which appends; the viewer's listener appends when the streamId is
\* its own; the viewer's dataConsumer.on('message') appends
Appends(d, w) ==
    \/ w.via = "data"
    \/ client[d].program = "publisher"
    \/ w.streamId = client[d].stream

\* a push reaches its client
Receive(d) ==
    \E w \in wire :
        /\ w.to = d
        /\ wire' = wire \ {w}
        /\ messages' = IF Appends(d, w)
                       THEN [messages EXCEPT ![d] = Append(@, w.message)]
                       ELSE messages
        /\ inbox' = IF "pushes" \in observed /\ w.via = "broadcast"
                    THEN [inbox EXCEPT ![d] = Append(@, ChatNote(w))]
                    ELSE inbox
        /\ UNCHANGED <<conn, directory, ids, reply, observed, scope, client,
                       outbox, nM>>

\* ---------------------------------------------------- the viewer's chat state
\* StreamViewer's isChatConnected, which enables the chat input and the Send button.

\* a setupDataConsumer that turns the chat on only when the server answered with the
\* fallback
AfterViewerCallback_OnlyFallback(c, clientOk) ==
    LET me == AfterCallback(c, clientOk)
    IN  IF client[c].program = "viewer" /\ reply.req = "consumeData"
           /\ reply.res = "fallback"
        THEN [me EXCEPT !.isChatConnected = TRUE]
        ELSE me

\* setupDataConsumer after the consumeData answer: setIsChatConnected(true) on a fallback
\* answer, on an error answer (the promise rejects, the catch runs) and when
\* consumerTransport.consumeData throws; with a data consumer the state waits for 'open'
AfterViewerCallback(c, clientOk) ==
    LET me == AfterCallback(c, clientOk)
    IN  IF client[c].program = "viewer" /\ reply.req = "consumeData"
           /\ ~(reply.res = "ok" /\ clientOk)
        THEN [me EXCEPT !.isChatConnected = TRUE]
        ELSE me

\* the acknowledgement callback of the request in flight runs in the client
ViewerCallback(clientOk) ==
    /\ reply.res # "none"
    /\ reply' = Quiet
    /\ client' = [client EXCEPT
                     ![reply.socket] = AfterViewerCallback(reply.socket, clientOk)]
    /\ UNCHANGED <<conn, directory, ids, inbox, observed, scope, messages, outbox,
                   wire, nM>>

\* dataConsumer.on('open'): setIsChatConnected(true)
DataConsumerOpens(c) ==
    /\ client[c].program = "viewer"
    /\ client[c].pc # "closed"
    /\ client[c].dataConsumer # NoId
    /\ ~client[c].isChatConnected
    /\ client' = [client EXCEPT ![c].isChatConnected = TRUE]
    /\ UNCHANGED <<conn, directory, ids, inbox, reply, observed, scope, messages,
                   outbox, wire, nM>>

\* dataConsumer.on('close'): setIsChatConnected(false)
DataConsumerCloses(c) ==
    /\ client[c].program = "viewer"
    /\ client[c].pc # "closed"
    /\ client[c].dataConsumer # NoId
    /\ client[c].isChatConnected
    /\ client' = [client EXCEPT ![c].isChatConnected = FALSE]
    /\ UNCHANGED <<conn, directory, ids, inbox, reply, observed, scope, messages,
                   outbox, wire, nM>>

\* the chat form: the viewer's input and Send button are disabled={!isChatConnected}
ChatSend(c) ==
    /\ client[c].program = "viewer" => client[c].isChatConnected
    /\ SendMessage(c)

\* ----------------------------------------------------------- specifications
\* the handlers that change the directory
Lifecycle ==
    \/ \E c \in Conn :
          /\ Connect(c)
          /\ UNCHANGED <<chat, pending>>
    \/ \E c \in Conn, role \in Roles, ok \in BOOLEAN :
          /\ CreateTransport(c, role, ok)
          /\ UNCHANGED <<chat, pending>>
    \/ \E c \in Conn, kind \in Kinds, ok \in BOOLEAN, dataOk \in BOOLEAN :
          /\ Produce(c, kind, ok, dataOk)
          /\ UNCHANGED <<chat, pending>>
    \/ \E c \in Conn :
          /\ Disconnect(c)
          /\ UNCHANGED <<chat, pending>>
    \/ /\ Deliver
       /\ UNCHANGED <<chat, pending>>

\* Spec: the directory under every sequence of connect, create transport, produce,
\* produce data and disconnect, whatever the clients are; the answers to these requests,
\* the notifications and the role of each transport are recorded
Init ==
    /\ InitServer
    /\ InitClients
    /\ observed = {"roles", "notifications", "createTransport", "produce", "produceData"}
    /\ scope = Narrow

Next ==
    \/ Lifecycle
    \/ \E c \in Conn, ok \in BOOLEAN :
          /\ ProduceData(c, ok)
          /\ UNCHANGED <<chat, pending>>

Spec == Init /\ [][Next]_vars

\* SpecConsume: the directory under connect, create transport, produce and disconnect,
\* with the consume requests and their answers
InitConsume ==
    /\ InitServer
    /\ InitClients
    /\ observed = {"consume"}
    /\ scope = Narrow

NextConsume ==
    \/ Lifecycle
    \/ \E c \in Conn, t \in TransportArgs, p \in ProducerArgs,
          can \in BOOLEAN, ok \in BOOLEAN :
          /\ Consume(c, t, p, can, ok)
          /\ UNCHANGED <<chat, pending>>

SpecConsume == InitConsume /\ [][NextConsume]_vars

\* SpecConsumeData: the directory with the consumeData requests and their answers
InitConsumeData ==
    /\ InitServer
    /\ InitClients
    /\ observed = {"consumeData"}
    /\ scope = Narrow

NextConsumeData ==
    \/ Lifecycle
    \/ \E c \in Conn, ok \in BOOLEAN :
          /\ ProduceData(c, ok)
          /\ UNCHANGED <<chat, pending>>
    \/ \E c \in Conn, k \in KeyArgs, ok \in BOOLEAN :
          /\ ConsumeData(c, k, ok)
          /\ UNCHANGED <<chat, pending>>

SpecConsumeData == InitConsumeData /\ [][NextConsumeData]_vars

\* SpecService: publishers running handleConnect against the server, with the timers of
\* WebRTCService.connect.  The timers fire (setTimeout) and a client that can emit its
\* next request does; an answer on its way arrives or is lost, and nothing makes it
\* arrive.
InitService ==
    /\ InitServer
    /\ InitClients
    /\ observed = {"getRouterRtpCapabilities", "createTransport",
                   "connectProducerTransport", "produce", "consumeData"}
    /\ scope = Narrow

CapabilitiesTimer(c) == ServiceCapabilitiesTimeout(c) /\ UNCHANGED pending

ConnectTimer(c) == ServiceConnectTimeout(c) /\ UNCHANGED pending

\* the next request of the program of c, when it is not waiting
ServiceStep(c) ==
    /\ \/ ServiceGetCapabilities(c)
       \/ \E ok \in BOOLEAN : ServiceCreateTransport(c, ok)
       \/ \E ok \in BOOLEAN : ServiceConnectTransport(c, ok)
       \/ \E ok \in BOOLEAN, dataOk \in BOOLEAN : ServiceProduce(c, ok, dataOk)
       \/ \E ok \in BOOLEAN : ServiceSetupDataChannel(c, ok)
    /\ UNCHANGED pending

\* the answer on its way arrives or is lost
AnswerSettled ==
    /\ \/ \E deviceOk \in BOOLEAN : ServiceCallback(deviceOk)
       \/ AnswerLost
    /\ UNCHANGED pending

NextService ==
    \/ \E c \in Conn :
          /\ ServiceStart(c)
          /\ UNCHANGED pending
    \/ \E c \in Conn :
          /\ ServiceConnectError(c)
          /\ UNCHANGED pending
    \/ \E c \in Conn :
          /\ ServiceOnConnect(c)
          /\ UNCHANGED pending
    \/ \E c \in Conn :
          /\ ServiceGetCapabilities(c)
          /\ UNCHANGED pending
    \/ \E c \in Conn, ok \in BOOLEAN :
          /\ ServiceCreateTransport(c, ok)
          /\ UNCHANGED pending
    \/ \E c \in Conn :
          /\ ServiceStreamFails(c)
          /\ UNCHANGED pending
    \/ \E c \in Conn, ok \in BOOLEAN :
          /\ ServiceConnectTransport(c, ok)
          /\ UNCHANGED pending
    \/ \E c \in Conn, ok \in BOOLEAN, dataOk \in BOOLEAN :
          /\ ServiceProduce(c, ok, dataOk)
          /\ UNCHANGED pending
    \/ \E c \in Conn, ok \in BOOLEAN :
          /\ ServiceSetupDataChannel(c, ok)
          /\ UNCHANGED pending
    \/ \E deviceOk \in BOOLEAN :
          /\ ServiceCallback(deviceOk)
          /\ UNCHANGED pending
    \/ /\ AnswerLost
       /\ UNCHANGED pending
    \/ \E c \in Conn : CapabilitiesTimer(c)
    \/ \E c \in Conn : ConnectTimer(c)
    \/ \E c \in Conn :
          /\ ClientDisconnect(c)
          /\ UNCHANGED pending

SpecService ==
    /\ InitService
    /\ [][NextService]_vars
    /\ \A c \in Conn : WF_vars(CapabilitiesTimer(c))
    /\ \A c \in Conn : WF_vars(ConnectTimer(c))
    /\ \A c \in Conn : SF_vars(ServiceStep(c))
    /\ WF_vars(AnswerSettled)

\* SpecPublish: the program of a publisher from handleConnect to the end of its chat
\* setup
InitPublish ==
    /\ InitServer
    /\ InitClients
    /\ observed = {"getRouterRtpCapabilities", "createTransport",
                   "connectProducerTransport", "produce", "consumeData"}
    /\ scope = Single

SpecPublish == InitPublish /\ [][NextService]_vars

\* SpecPoll: one publisher and one call of setupDataChannel at any time of its program,
\* before the video producer is there (it polls) or in handleConnect's place.  The
\* interval's callback runs; a client that can emit its next request does; an answer on
\* its way arrives or is lost.
InitPoll ==
    /\ InitServer
    /\ InitClients
    /\ observed = {"getRouterRtpCapabilities", "createTransport",
                   "connectProducerTransport", "produce", "consumeData"}
    /\ scope = Alone

Interval(c) == (\E ok \in BOOLEAN : PollTick(c, ok)) /\ UNCHANGED pending

NextPoll ==
    \/ NextService
    \/ \E c \in Conn :
          /\ ServiceSetupEarly(c)
          /\ UNCHANGED pending
    \/ \E c \in Conn : Interval(c)

SpecPoll ==
    /\ InitPoll
    /\ [][NextPoll]_vars
    /\ \A c \in Conn : WF_vars(Interval(c))
    /\ \A c \in Conn : SF_vars(ServiceStep(c))
    /\ WF_vars(AnswerSettled)

\* SpecDtls: the directory with the connect requests and the DTLS state of each
\* transport; the role of a transport and the answers to connect and produce are recorded
InitDtls ==
    /\ InitServer
    /\ InitClients
    /\ observed = {"roles", "dtls", "connectProducerTransport",
                   "connectConsumerTransport", "produce"}
    /\ scope = Narrow

NextDtls ==
    \/ Lifecycle
    \/ \E c \in Conn, ok \in BOOLEAN :
          /\ ConnectProducerTransport(c, ok)
          /\ UNCHANGED <<chat, pending>>
    \/ \E c \in Conn, t \in TransportArgs, ok \in BOOLEAN :
          /\ ConnectConsumerTransport(c, t, ok)
          /\ UNCHANGED <<chat, pending>>
    \/ \E t \in TransportArgs :
          /\ DtlsFailed(t)
          /\ UNCHANGED <<chat, pending>>

SpecDtls == InitDtls /\ [][NextDtls]_vars

\* SpecData: the directory with the data producers registered by produce and by
\* produceData, a second registration included
InitData ==
    /\ InitServer
    /\ InitClients
    /\ observed = {}
    /\ scope = Registering

NextData ==
    \/ \E c \in Conn :
          /\ Connect(c)
          /\ UNCHANGED <<chat, pending>>
    \/ \E c \in Conn, role \in Roles, ok \in BOOLEAN :
          /\ CreateTransport(c, role, ok)
          /\ UNCHANGED <<chat, pending>>
    \/ \E c \in Conn, kind \in Kinds, ok \in BOOLEAN, dataOk \in BOOLEAN :
          /\ Produce(c, kind, ok, dataOk)
          /\ UNCHANGED <<chat, pending>>
    \/ \E c \in Conn, ok \in BOOLEAN :
          /\ ProduceData(c, ok)
          /\ UNCHANGED <<chat, pending>>
    \/ \E c \in Conn :
          /\ Disconnect(c)
          /\ UNCHANGED <<chat, pending>>

SpecData == InitData /\ [][NextData]_vars

\* SpecSignal: the signaling requests with a callback, from the moment the server
\* receives one to the handler's answer.  The events of a socket are handled in the
\* order they were sent, the disconnect after the requests before it.
Events ==
    {"getRouterRtpCapabilities", "createTransport", "connectProducerTransport",
     "produce", "connectConsumerTransport", "consume", "getProducers", "produceData",
     "consumeData"}

\* the requests connection c can emit, each with its payload; createProducerTransport
\* and createConsumerTransport are "createTransport" with the role
RequestsOf(c) ==
    {Suspended(c, r, "received", "", NoId, NoId, NoId) :
        r \in {"getRouterRtpCapabilities", "connectProducerTransport", "getProducers",
               "produceData"}}
    \cup {Suspended(c, "createTransport", "received", role, NoId, NoId, NoId) :
             role \in Roles}
    \cup {Suspended(c, "produce", "received", kind, NoId, NoId, NoId) : kind \in Kinds}
    \cup {Suspended(c, "connectConsumerTransport", "received", "", t, NoId, NoId) :
             t \in TransportArgs}
    \cup {Suspended(c, "consume", "received", "", t, NoId, p) :
             t \in TransportArgs, p \in ProducerArgs}
    \cup {Suspended(c, "consumeData", "received", "", NoId, k, NoId) : k \in KeyArgs}

\* socket.emit(event, payload, callback) in a client, as the server receives it: the
\* event loop takes the events up one at a time, and each handler here runs to its end
Emit(s) ==
    /\ conn[s.socket] = "connected"
    /\ pending = {}
    /\ reply.res = "none"
    /\ pending' = {s}
    /\ UNCHANGED <<conn, directory, ids, inbox, reply, observed, scope>>

\* the handler of request s runs
Serving(s, req) ==
    /\ s.at = "received"
    /\ s.req = req
    /\ pending' = pending \ {s}

InitSignal ==
    /\ InitServer
    /\ InitClients
    /\ observed = Events
    /\ scope = Narrow

NextSignal ==
    \/ \E c \in Conn :
          /\ Connect(c)
          /\ UNCHANGED <<chat, pending>>
    \/ \E c \in Conn :
          /\ Idle(c)
          /\ Disconnect(c)
          /\ UNCHANGED <<chat, pending>>
    \/ /\ Deliver
       /\ UNCHANGED <<chat, pending>>
    \/ \E c \in Conn : \E s \in RequestsOf(c) :
          /\ Emit(s)
          /\ UNCHANGED chat
    \/ \E s \in pending :
          /\ Serving(s, "getRouterRtpCapabilities")
          /\ GetRouterRtpCapabilities(s.socket)
          /\ UNCHANGED chat
    \/ \E s \in pending, ok \in BOOLEAN :
          /\ Serving(s, "createTransport")
          /\ CreateTransport(s.socket, s.kind, ok)
          /\ UNCHANGED chat
    \/ \E s \in pending, ok \in BOOLEAN :
          /\ Serving(s, "connectProducerTransport")
          /\ ConnectProducerTransport(s.socket, ok)
          /\ UNCHANGED chat
    \/ \E s \in pending, ok \in BOOLEAN, dataOk \in BOOLEAN :
          /\ Serving(s, "produce")
          /\ Produce(s.socket, s.kind, ok, dataOk)
          /\ UNCHANGED chat
    \/ \E s \in pending, ok \in BOOLEAN :
          /\ Serving(s, "connectConsumerTransport")
          /\ ConnectConsumerTransport(s.socket, s.transportId, ok)
          /\ UNCHANGED chat
    \/ \E s \in pending, can \in BOOLEAN, ok \in BOOLEAN :
          /\ Serving(s, "consume")
          /\ Consume(s.socket, s.transportId, s.id, can, ok)
          /\ UNCHANGED chat
    \/ \E s \in pending :
          /\ Serving(s, "getProducers")
          /\ GetProducers(s.socket)
          /\ UNCHANGED chat
    \/ \E s \in pending, ok \in BOOLEAN :
          /\ Serving(s, "produceData")
          /\ ProduceData(s.socket, ok)
          /\ UNCHANGED chat
    \/ \E s \in pending, ok \in BOOLEAN :
          /\ Serving(s, "consumeData")
          /\ ConsumeData(s.socket, s.via, ok)
          /\ UNCHANGED chat

SpecSignal == InitSignal /\ [][NextSignal]_vars

\* SpecChat: publishers and viewers running their programs against the server, and the
\* chat they exchange
InitChat ==
    /\ InitServer
    /\ InitClients
    /\ observed = {"createTransport", "produce", "consume", "consumeData"}
    /\ scope = Narrow

NextChat ==
    \/ \E c \in Conn :
          /\ PublisherConnect(c)
          /\ UNCHANGED pending
    \/ \E c \in Conn, ok \in BOOLEAN :
          /\ PublisherCreateTransport(c, ok)
          /\ UNCHANGED pending
    \/ \E c \in Conn, ok \in BOOLEAN, dataOk \in BOOLEAN :
          /\ PublisherProduce(c, ok, dataOk)
          /\ UNCHANGED pending
    \/ \E c \in Conn, ok \in BOOLEAN :
          /\ PublisherSetupDataChannel(c, ok)
          /\ UNCHANGED pending
    \/ \E c \in Conn, s \in HandedOutProducers :
          /\ ViewerConnect(c, s)
          /\ UNCHANGED pending
    \/ \E c \in Conn, ok \in BOOLEAN :
          /\ ViewerCreateTransport(c, ok)
          /\ UNCHANGED pending
    \/ \E c \in Conn, can \in BOOLEAN, ok \in BOOLEAN :
          /\ ViewerConsume(c, can, ok)
          /\ UNCHANGED pending
    \/ \E c \in Conn, ok \in BOOLEAN :
          /\ ViewerSetupDataConsumer(c, ok)
          /\ UNCHANGED pending
    \/ \E clientOk \in BOOLEAN :
          /\ Callback(clientOk)
          /\ UNCHANGED pending
    \/ \E c \in Conn :
          /\ ClientDisconnect(c)
          /\ UNCHANGED pending
    \/ \E c \in Conn :
          /\ SendMessage(c)
          /\ UNCHANGED pending
    \/ \E c \in Conn, relayed \in BOOLEAN :
          /\ ChatMessage(c, relayed)
          /\ UNCHANGED pending
    \/ \E c \in Conn :
          /\ Receive(c)
          /\ UNCHANGED pending

SpecChat == InitChat /\ [][NextChat]_vars

\* the chat relay with the pushes each socket received recorded, and with the scheduling
\* the runtime gives: the event loop runs the handler of every event a connected socket
\* sent, and socket.io hands every emitted event to a socket that stays connected
InitChatFair ==
    /\ InitServer
    /\ InitClients
    /\ observed = {"createTransport", "produce", "consume", "consumeData", "pushes"}
    /\ scope = Narrow

HandleChat(c) == \E relayed \in BOOLEAN : ChatMessage(c, relayed) /\ UNCHANGED pending

ReceivePush(d) == Receive(d) /\ UNCHANGED pending

SpecChatFair ==
    /\ InitChatFair
    /\ [][NextChat]_vars
    /\ \A c \in Conn : WF_vars(HandleChat(c))
    /\ \A d \in Conn : WF_vars(ReceivePush(d))

\* SpecViewerChat: the chat relay with the viewer's chat state: a viewer sends when its
\* chat form is enabled; scheduling as in SpecChatFair
InitViewerChat ==
    /\ InitServer
    /\ InitClients
    /\ observed = {"createTransport", "produce", "consume", "consumeData", "pushes"}
    /\ scope = Pair

NextViewerChat ==
    \/ \E c \in Conn :
          /\ PublisherConnect(c)
          /\ UNCHANGED pending
    \/ \E c \in Conn, ok \in BOOLEAN :
          /\ PublisherCreateTransport(c, ok)
          /\ UNCHANGED pending
    \/ \E c \in Conn, ok \in BOOLEAN, dataOk \in BOOLEAN :
          /\ PublisherProduce(c, ok, dataOk)
          /\ UNCHANGED pending
    \/ \E c \in Conn, ok \in BOOLEAN :
          /\ PublisherSetupDataChannel(c, ok)
          /\ UNCHANGED pending
    \/ \E c \in Conn, s \in HandedOutProducers :
          /\ ViewerConnect(c, s)
          /\ UNCHANGED pending
    \/ \E c \in Conn, ok \in BOOLEAN :
          /\ ViewerCreateTransport(c, ok)
          /\ UNCHANGED pending
    \/ \E c \in Conn, can \in BOOLEAN, ok \in BOOLEAN :
          /\ ViewerConsume(c, can, ok)
          /\ UNCHANGED pending
    \/ \E c \in Conn, ok \in BOOLEAN :
          /\ ViewerSetupDataConsumer(c, ok)
          /\ UNCHANGED pending
    \/ \E clientOk \in BOOLEAN :
          /\ ViewerCallback(clientOk)
          /\ UNCHANGED pending
    \/ \E c \in Conn :
          /\ DataConsumerOpens(c)
          /\ UNCHANGED pending
    \/ \E c \in Conn :
          /\ DataConsumerCloses(c)
          /\ UNCHANGED pending
    \/ \E c \in Conn :
          /\ ClientDisconnect(c)
          /\ UNCHANGED pending
    \/ \E c \in Conn :
          /\ ChatSend(c)
          /\ UNCHANGED pending
    \/ \E c \in Conn, relayed \in BOOLEAN :
          /\ ChatMessage(c, relayed)
          /\ UNCHANGED pending
    \/ \E c \in Conn :
          /\ Receive(c)
          /\ UNCHANGED pending

SpecViewerChat ==
    /\ InitViewerChat
    /\ [][NextViewerChat]_vars
    /\ \A c \in Conn : WF_vars(HandleChat(c))
    /\ \A d \in Conn : WF_vars(ReceivePush(d))

\* SpecCleanup: the directory, with cleanup called again
InitCleanup ==
    /\ InitServer
    /\ InitClients
    /\ observed = {"cleanup"}
    /\ scope = Narrow

NextCleanup ==
    \/ Lifecycle
    \/ \E c \in Conn :
          /\ CleanupCall(c)
          /\ UNCHANGED <<chat, pending>>

SpecCleanup == InitCleanup /\ [][NextCleanup]_vars

\* SpecTransports: createProducerTransport, createConsumerTransport and disconnect, the
\* create handlers suspended in the engine call while other handlers run
InitTransports ==
    /\ InitServer
    /\ InitClients
    /\ observed = {"roles"}
    /\ scope = Wide

NextTransports ==
    \/ \E c \in Conn :
          /\ Connect(c)
          /\ UNCHANGED <<chat, pending>>
    \/ \E c \in Conn :
          /\ Disconnect(c)
          /\ UNCHANGED <<chat, pending>>
    \/ \E c \in Conn, role \in Roles :
          /\ CreateTransportBegin(c, role)
          /\ UNCHANGED chat
    \/ \E s \in pending, ok \in BOOLEAN :
          /\ CreateTransportResume(s, ok)
          /\ UNCHANGED chat

SpecTransports == InitTransports /\ [][NextTransports]_vars

\* SpecCloseAll: the directory under createWebRtcTransport, produce, cleanup (in the
\* disconnect handler and called again) and closeAll
InitCloseAll ==
    /\ InitServer
    /\ InitClients
    /\ observed = {"closeAll"}
    /\ scope = Narrow

NextCloseAll ==
    \/ Lifecycle
    \/ \E c \in Conn :
          /\ CleanupCall(c)
          /\ UNCHANGED <<chat, pending>>
    \/ /\ CloseAllCall
       /\ UNCHANGED <<chat, pending>>

SpecCloseAll == InitCloseAll /\ [][NextCloseAll]_vars

\* SpecReaders: the directory with the handlers that only read it: consume,
\* connectConsumerTransport, getProducers, consumeData and chatMessage, with any payload
Readers == {"consume", "connectConsumerTransport", "getProducers", "consumeData"}

InitReaders ==
    /\ InitServer
    /\ InitClients
    /\ observed = Readers
    /\ scope = Pair

NextReaders ==
    \/ \E c \in Conn :
          /\ Connect(c)
          /\ UNCHANGED <<chat, pending>>
    \/ \E c \in Conn, role \in Roles, ok \in BOOLEAN :
          /\ CreateTransport(c, role, ok)
          /\ UNCHANGED <<chat, pending>>
    \/ \E c \in Conn, kind \in Kinds, ok \in BOOLEAN, dataOk \in BOOLEAN :
          /\ Produce(c, kind, ok, dataOk)
          /\ UNCHANGED <<chat, pending>>
    \/ \E c \in Conn :
          /\ outbox[c] = <<>>
          /\ Disconnect(c)
          /\ UNCHANGED <<chat, pending>>
    \/ /\ Deliver
       /\ UNCHANGED <<chat, pending>>
    \/ \E c \in Conn, t \in TransportArgs, p \in ProducerArgs,
          can \in BOOLEAN, ok \in BOOLEAN :
          /\ Consume(c, t, p, can, ok)
          /\ UNCHANGED <<chat, pending>>
    \/ \E c \in Conn, t \in TransportArgs, ok \in BOOLEAN :
          /\ ConnectConsumerTransport(c, t, ok)
          /\ UNCHANGED <<chat, pending>>
    \/ \E c \in Conn :
          /\ GetProducers(c)
          /\ UNCHANGED <<chat, pending>>
    \/ \E c \in Conn, k \in KeyArgs, ok \in BOOLEAN :
          /\ ConsumeData(c, k, ok)
          /\ UNCHANGED <<chat, pending>>
    \/ \E c \in Conn, p \in ProducerArgs :
          /\ EmitChat(c, p)
          /\ UNCHANGED pending
    \/ \E c \in Conn, relayed \in BOOLEAN :
          /\ ChatMessage(c, relayed)
          /\ UNCHANGED pending

SpecReaders == InitReaders /\ [][NextReaders]_vars

\* SpecStreams: the broadcast of the chat with two streams: publishers that produce, a
\* viewer with its socket and its 'broadcastChatMessage' listener, all staying connected
InitStreams ==
    /\ InitServer
    /\ InitClients
    /\ observed = {"createTransport", "produce"}
    /\ scope = Streams

NextStreams ==
    \/ \E c \in Conn :
          /\ PublisherConnect(c)
          /\ UNCHANGED pending
    \/ \E c \in Conn, ok \in BOOLEAN :
          /\ PublisherCreateTransport(c, ok)
          /\ UNCHANGED pending
    \/ \E c \in Conn, ok \in BOOLEAN, dataOk \in BOOLEAN :
          /\ PublisherProduce(c, ok, dataOk)
          /\ UNCHANGED pending
    \/ \E c \in Conn, s \in HandedOutProducers :
          /\ ViewerConnect(c, s)
          /\ UNCHANGED pending
    \/ \E clientOk \in BOOLEAN :
          /\ Callback(clientOk)
          /\ UNCHANGED pending
    \/ \E c \in Conn :
          /\ SendMessage(c)
          /\ UNCHANGED pending
    \/ \E c \in Conn, relayed \in BOOLEAN :
          /\ ChatMessage(c, relayed)
          /\ UNCHANGED pending
    \/ \E c \in Conn :
          /\ Receive(c)
          /\ UNCHANGED pending

SpecStreams == InitStreams /\ [][NextStreams]_vars

\* SpecPublisherChat: one publisher through handleConnect, writing chat messages while
\* its page shows the chat
NextPublisherChat ==
    \/ NextService
    \/ \E c \in Conn :
          /\ PublisherChatSend(c)
          /\ UNCHANGED pending

SpecPublisherChat == InitPublish /\ [][NextPublisherChat]_vars

\* SpecReconnect: one publisher through handleConnect whose socket reconnects, with its
\* chat
NextReconnect ==
    \/ NextPublisherChat
    \/ \E c \in Conn :
          /\ ServiceReconnect(c)
          /\ UNCHANGED pending
    \/ \E c \in Conn, relayed \in BOOLEAN :
          /\ ChatMessage(c, relayed)
          /\ UNCHANGED pending
    \/ \E d \in Conn :
          /\ ServiceReceive(d)
          /\ UNCHANGED pending

SpecReconnect == InitPublish /\ [][NextReconnect]_vars

\* SpecAsync: the handlers of createProducerTransport, createConsumerTransport and produce
\* cut at their awaits, with connect and disconnect running in between; the notifications
\* are recorded
InitAsync ==
    /\ InitServer
    /\ InitClients
    /\ observed = {"notifications"}
    /\ scope = Wide

NextAsync ==
    \/ \E c \in Conn :
          /\ Connect(c)
          /\ UNCHANGED <<chat, pending>>
    \/ \E c \in Conn :
          /\ Disconnect(c)
          /\ UNCHANGED <<chat, pending>>
    \/ \E c \in Conn, role \in Roles :
          /\ CreateTransportBegin(c, role)
          /\ UNCHANGED chat
    \/ \E s \in pending, ok \in BOOLEAN :
          /\ CreateTransportResume(s, ok)
          /\ UNCHANGED chat
    \/ \E c \in Conn, kind \in Kinds :
          /\ ProduceBegin(c, kind)
          /\ UNCHANGED chat
    \/ \E s \in pending, ok \in BOOLEAN :
          /\ ProduceResume(s, ok)
          /\ UNCHANGED chat
    \/ \E s \in pending, ok \in BOOLEAN :
          /\ ProduceDataResume(s, ok)
          /\ UNCHANGED chat

SpecAsync == InitAsync /\ [][NextAsync]_vars

\* SpecNotify: the newProducer notifications and the answers to produce
InitNotify ==
    /\ InitServer
    /\ InitClients
    /\ observed = {"notifications", "produce"}
    /\ scope = Narrow

NextNotify == Lifecycle

SpecNotify == InitNotify /\ [][NextNotify]_vars

\* SpecLists: what the connections are told about the producers: the notifications and
\* the lists of getProducers.  A createTransport or produce in which the engine call
\* throws changes nothing of what is recorded here and is left out, and so is the role of
\* a transport
InitLists ==
    /\ InitServer
    /\ InitClients
    /\ observed = {"notifications", "lists"}
    /\ scope = Narrow

NextLists ==
    \/ \E c \in Conn :
          /\ Connect(c)
          /\ UNCHANGED <<chat, pending>>
    \/ \E c \in Conn :
          /\ CreateTransport(c, "publish", TRUE)
          /\ UNCHANGED <<chat, pending>>
    \/ \E c \in Conn, kind \in Kinds, dataOk \in BOOLEAN :
          /\ Produce(c, kind, TRUE, dataOk)
          /\ UNCHANGED <<chat, pending>>
    \/ \E c \in Conn :
          /\ Disconnect(c)
          /\ UNCHANGED <<chat, pending>>
    \/ \E c \in Conn :
          /\ GetProducers(c)
          /\ UNCHANGED <<chat, pending>>

SpecLists == InitLists /\ [][NextLists]_vars

\* ------------------------------------------------------------------ claims
\* C1 (cascade completeness): once the disconnect handler of a connection has run, the
\* producers map holds no producer that this connection created.
C1_CascadeCompleteness ==
    \A p \in DOMAIN producers : conn[producers[p].createdBy] # "disconnected"

\* C2: a connection that has a transport of a role resolves to a transport of that role:
\* the lookup of connectProducerTransport / produce (socketToTransport) yields a publish
\* transport while the connection has one, and the lookup of the subscribe side
\* (socketToTransportId, used by consumeData) a subscribe transport while it has one.
C2_BothRolesResolvable ==
    \A t \in DOMAIN transports :
        LET c == transports[t].socketId
        IN  conn[c] = "connected" =>
               /\ Has(socketToTransport, c) /\ Has(socketToTransportId, c)
               /\ transports[t].role = "publish" =>
                     /\ Has(transports, socketToTransport[c])
                     /\ transports[socketToTransport[c]].role = "publish"
               /\ transports[t].role = "subscribe" =>
                     /\ Has(transports, socketToTransportId[c])
                     /\ transports[socketToTransportId[c]].role = "subscribe"

\* C3: once the disconnect handler of a connection has run, no entry of the transports
\* map is a transport created for that connection.
C3_AllTransportsClosed ==
    \A t \in DOMAIN transports : conn[transports[t].socketId] # "disconnected"

\* C4: if the key '{P}-data' is in the dataProducers map then P is in the producers map.
C4_ChatKeyHasProducer ==
    \A k \in DOMAIN dataProducers : EndsWithData(k) => Has(producers, k[1])

\* C5: when a connection that holds producer P disconnects, afterwards getProducers()
\* does not list P and every other connected connection has received exactly one
\* producerClosed notification for P.
C5_DisconnectNotifies ==
    [][\A c \in Conn :
          (conn[c] = "connected" /\ conn'[c] = "disconnected") =>
             \A p \in DOMAIN producers :
                producers[p].createdBy = c =>
                   /\ \A e \in GetProducersList' : e.id # p
                   /\ \A d \in Conn \ {c} :
                         conn[d] = "connected" =>
                            Cardinality({i \in 1 .. Len(inbox'[d]) :
                                            /\ inbox'[d][i].type = "producerClosed"
                                            /\ inbox'[d][i].producerId = p}) = 1]_vars

\* C11: when the disconnect handler of a connection has run while a produce of that
\* connection was suspended in transport.produce, the completion of the call registers no
\* producer.
C11_LateProduceNotRegistered ==
    [][\A s \in pending :
          (/\ s.req = "produce" /\ s.at = "produce"
           /\ conn[s.socket] = "disconnected"
           /\ s \notin pending') => producers' = producers]_vars

\* C12: when a connection has disconnected while its createProducerTransport or
\* createConsumerTransport was suspended in the engine call, the completion adds no entry
\* to transports, socketToTransport or socketToTransportId.
C12_LateTransportDiscarded ==
    [][\A s \in pending :
          (/\ s.req = "createTransport"
           /\ conn[s.socket] = "disconnected"
           /\ s \notin pending') =>
             UNCHANGED <<transports, socketToTransport, socketToTransportId>>]_vars

\* producer ids are handed out in the order the producers enter the producers map
InsertedBefore(p, q) == p[2] < q[2]

\* C13: for producers P and Q of different connections with P inserted into the producers
\* map before Q, no connection receives newProducer(Q) before newProducer(P).
C13_NewProducerInInsertionOrder ==
    \A d \in Conn :
        \A i \in 1 .. Len(inbox[d]), j \in 1 .. Len(inbox[d]) :
            LET q == inbox[d][i].producerId
                p == inbox[d][j].producerId
            IN  (/\ i < j
                 /\ inbox[d][i].type = "newProducer" /\ inbox[d][j].type = "newProducer"
                 /\ Has(producers, p) /\ Has(producers, q)
                 /\ producers[p].createdBy # producers[q].createdBy) =>
                    ~InsertedBefore(p, q)

\* connection d has been told about producer p by the i-th thing it received
Told(d, i, p) ==
    \/ inbox[d][i].type = "newProducer" /\ inbox[d][i].producerId = p
    \/ inbox[d][i].type = "producers" /\ p \in inbox[d][i].list

ProducedNote == [type |-> "newProducer", producerId |-> reply.id, kind |-> reply.arg.kind]

\* C15: a successful produce inserts the new producer into the producers map, sends
\* exactly one newProducer(producerId, kind) to every connected connection other than the
\* requester, none to the requester, and answers the requester with the producer's id.
C15_ProduceNotifiesOthers ==
    [][(reply'.req = "produce" /\ reply'.res = "ok") =>
          /\ reply'.id = PId(nP') /\ nP' = nP + 1
          /\ ~Has(producers, reply'.id) /\ Has(producers', reply'.id)
          /\ producers'[reply'.id].kind = reply'.arg.kind
          /\ \A d \in Conn :
                inbox'[d] = IF d # reply'.socket /\ conn[d] = "connected"
                            THEN Append(inbox[d], ProducedNote')
                            ELSE inbox[d]
          /\ \A d \in Conn :
                Cardinality({i \in 1 .. Len(inbox'[d]) : inbox'[d][i] = ProducedNote'})
                   = IF d # reply'.socket /\ conn[d] = "connected" THEN 1 ELSE 0]_vars

\* a produce has been answered with an id while another connection was connected
C15_Witness ==
    /\ reply.req = "produce" /\ reply.res = "ok"
    /\ \E d \in Conn \ {reply.socket} :
          /\ conn[d] = "connected"
          /\ \E i \in 1 .. Len(inbox[d]) : inbox[d][i] = ProducedNote

\* C16: a video produce that has created its producer is answered with the id, leaves
\* the producer in the producers map and broadcasts newProducer also when the companion
\* data producer could not be created, and then the dataProducers map gets no entry.
C16_DataFailureKeepsStream ==
    [][(reply'.req = "produce" /\ reply'.arg.kind = "video" /\ nP' = nP + 1) =>
          /\ reply'.res = "ok" /\ reply'.id = PId(nP')
          /\ Has(producers', PId(nP'))
          /\ \A d \in Conn \ {reply'.socket} :
                conn[d] = "connected" => inbox'[d] = Append(inbox[d], ProducedNote')
          /\ \/ dataProducers' = dataProducers /\ nD' = nD
             \/ /\ nD' = nD + 1
                /\ DOMAIN dataProducers' = DOMAIN dataProducers \cup {ChatKey(PId(nP'))}]_vars

\* a video produce has been answered with an id and its stream has no chat key, while
\* another connection, which has received the newProducer, is connected
C16_Witness ==
    /\ reply.req = "produce" /\ reply.res = "ok" /\ reply.arg.kind = "video"
    /\ ~Has(dataProducers, ChatKey(reply.id))
    /\ Has(producers, reply.id)
    /\ \E d \in Conn \ {reply.socket} :
          conn[d] = "connected" /\ inbox[d] # <<>> /\ inbox[d][Len(inbox[d])] = ProducedNote

\* how often message m is in the local buffer of client c
Count(c, m) == Cardinality({i \in 1 .. Len(messages[c]) : messages[c][i] = m})

\* C6: a chat message its sender (publisher client or viewer) has sent is exactly once in
\* the sender's own local message buffer, whatever has come back to the sender since.
C6_SenderSeesOwnMessageOnce ==
    \A c \in Conn :
        \A i \in 1 .. Len(messages[c]) :
            messages[c][i].sender = c => Count(c, messages[c][i]) = 1

\* C7: a viewer that holds a data consumer for the chat key of its stream has a chat
\* message sent by the publisher of that stream at most once in its local message buffer.
C7_ViewerSeesMessageOnce ==
    \A a \in Conn, b \in Conn :
        (/\ client[a].program = "publisher"
         /\ client[b].program = "viewer"
         /\ client[b].stream = client[a].stream
         /\ client[b].dataConsumer # NoId) =>
            \A i \in 1 .. Len(messages[b]) :
                messages[b][i].sender = a => Count(b, messages[b][i]) <= 1

\* C8: a consumeData request for a chat key that has no entry in the dataProducers map is
\* answered with the fallback outcome, whatever the requesting connection's transport
\* mapping is.
C8_FallbackWhenAbsent ==
    (reply.req = "consumeData" /\ EndsWithData(reply.arg.key)
        /\ ~Has(dataProducers, reply.arg.key)) => reply.res = "fallback"

\* C9 as claimed: a consume request whose producerId is not in the producers map is
\* answered with the error 'Producer ... not found', for every transportId.
C9_AlwaysProducerNotFound ==
    (reply.req = "consume" /\ ~Has(producers, reply.arg.producerId)) =>
        (reply.res = "error" /\ reply.error = "ProducerNotFound")

\* C9 as amended: a consume request whose producerId is not in the producers map is
\* always answered with an error: 'Producer ... not found' when its transportId is in the
\* transports map, 'Transport ... not found' when it is not.
C9_StaleConsumeAnswered ==
    (reply.req = "consume" /\ ~Has(producers, reply.arg.producerId)) =>
        /\ reply.res = "error"
        /\ reply.error = IF Has(transports, reply.arg.transportId)
                         THEN "ProducerNotFound" ELSE "TransportNotFound"

\* a consume of a stale producer id (handed out, since closed) was answered
C9_Witness ==
    /\ reply.req = "consume"
    /\ reply.error = "ProducerNotFound"
    /\ reply.arg.producerId \in HandedOutProducers \ DOMAIN producers

\* C10: a consume request that fails because the producer id is stale changes no map of
\* the directory, no connection and no notification: the state every later request is
\* answered from is the state before the failed consume.
C10_FailedConsumeChangesNothing ==
    [][(reply'.req = "consume" /\ reply'.error = "ProducerNotFound") =>
          UNCHANGED <<conn, directory, ids, inbox>>]_vars

\* a consume of a stale producer id has failed on a transport of the directory, while the
\* directory holds a transport and a chat key
C10_Witness ==
    /\ reply.req = "consume"
    /\ reply.res = "error"
    /\ reply.arg.producerId \in HandedOutProducers \ DOMAIN producers
    /\ Has(transports, reply.arg.transportId)
    /\ DOMAIN dataProducers # {}

ChatEntries(c) ==
    [streamId : {PId(n) : n \in 1 .. MaxProducers},
     message : {Message(c, n) : n \in 1 .. MaxMessages}]

Queued(c, e) == \E i \in 1 .. Len(outbox[c]) : outbox[c][i] = e

Got(d, e) ==
    \E i \in 1 .. Len(inbox[d]) :
        /\ inbox[d][i].type = "broadcastChatMessage"
        /\ inbox[d][i].producerId = e.streamId
        /\ inbox[d][i].message = e.message

\* C18: every chatMessage a connected client has sent is eventually received as
\* broadcastChatMessage, with the same streamId and message, by every connection that
\* was connected then and stays connected, the sender included.
C18_EventuallyBroadcast ==
    \A c \in Conn : \A d \in Conn : \A e \in ChatEntries(c) :
        (Queued(c, e) /\ conn[d] = "connected") ~> (conn[d] # "connected" \/ Got(d, e))

\* a viewer's message has been received by the viewer and by another connection, both
\* still connected
C18_Witness ==
    \E c \in Conn : \E d \in Conn \ {c} : \E e \in ChatEntries(c) :
        /\ conn[c] = "connected"
        /\ conn[d] = "connected"
        /\ Got(c, e)
        /\ Got(d, e)

\* reply r is the one answer to request s: a result, or { error }
Answers(r, s) ==
    /\ r.socket = s.socket
    /\ r.req = s.req
    /\ r.res \in {"ok", "fallback", "error"}
    /\ (r.res = "error") <=> (r.error # "")

C20_RegisterReplaces ==
    [][nD' = nD + 1 =>
          \E key \in DOMAIN dataProducers' :
              /\ dataProducers'[key].id = DId(nD')
              /\ DOMAIN dataProducers' = DOMAIN dataProducers \cup {key}
              /\ \A k \in DOMAIN dataProducers \ {key} :
                    dataProducers'[k] = dataProducers[k]]_vars

\* the second data producer has taken the place of the first under the stream's chat key
C20_Witness ==
    /\ nD = 2
    /\ DOMAIN dataProducers = {ChatKey(PId(1))}
    /\ dataProducers[ChatKey(PId(1))].id = DId(2)

\* C21: a connectProducerTransport or connectConsumerTransport request of connection c
\* succeeds only on a transport created for c: whenever such a request is answered with
\* success, or a transport becomes connected, the transport is one of the requester's.
C21_ConnectOnlyOwnTransport ==
    [][/\ (/\ reply' # reply
           /\ reply'.req = "connectConsumerTransport"
           /\ reply'.res = "ok") =>
              transports[reply'.arg.transportId].socketId = reply'.socket
       /\ (/\ reply' # reply
           /\ reply'.req = "connectProducerTransport"
           /\ reply'.res = "ok") =>
              transports[socketToTransport[reply'.socket]].socketId = reply'.socket
       /\ \A t \in DOMAIN transports \cap DOMAIN transports' :
             (transports[t].dtls # "connected" /\ transports'[t].dtls = "connected") =>
                 transports[t].socketId = reply'.socket]_vars

\* C22: a produce request succeeds only when the requesting connection has a publish
\* transport that has been connected: a successful produce finds, as the connection's
\* transport, one created by createProducerTransport whose connect has succeeded.
C22_ProduceNeedsConnectedPublish ==
    [][(/\ reply' # reply
        /\ reply'.req = "produce"
        /\ reply'.res = "ok") =>
           /\ Has(socketToTransport, reply'.socket)
           /\ Has(transports, socketToTransport[reply'.socket])
           /\ transports[socketToTransport[reply'.socket]].role = "publish"
           /\ transports[socketToTransport[reply'.socket]].dtls = "connected"]_vars

\* C23: a transport whose DTLS state has become 'failed' is closed and removed: no
\* transport of the transports map, and none a socket maps to, is in the failed state.
C23_NoFailedTransportKept ==
    /\ \A t \in DOMAIN transports : transports[t].dtls # "failed"
    /\ \A c \in DOMAIN socketToTransport :
          Has(transports, socketToTransport[c]) =>
              transports[socketToTransport[c]].dtls # "failed"

\* the round trips of the publisher's connect sequence: the client waits for the answer
RoundTrips == {"capabilities", "createTransport", "connectTransport", "produce"}

\* C24: every round trip of the publisher's connect sequence has a bounded wait: a
\* publisher that waits for an answer eventually stops waiting, and the promise of
\* WebRTCService.connect is eventually resolved or rejected (or the client has gone).
C24_RoundTripsEnd ==
    \A c \in Conn :
        /\ (Service(c) /\ client[c].pc \in RoundTrips) ~> (client[c].pc \notin RoundTrips)
        /\ (client[c].promise = "pending") ~>
               (client[c].promise # "pending" \/ client[c].pc = "closed")

\* C25: the publisher emits consumeData only after startStreaming has completed, for
\* the chat key of its video producer's id, and once the stream has started nothing
\* that happens to the chat setup (an error, a fallback answer, no answer) takes
\* connected or streamStarted back: they stay true.
C25_ChatSetupNotFatal ==
    [][\A c \in Conn :
          Service(c) =>
              /\ client'[c].emitted # client[c].emitted =>
                    /\ client[c].streamStarted
                    /\ client[c].stream # NoId
                    /\ reply'.req = "consumeData"
                    /\ reply'.arg.key = ChatKey(client[c].stream)
              /\ client'[c].streamStarted => client'[c].connected
              /\ client[c].streamStarted => client'[c].streamStarted]_vars

\* the stream is published, the chat setup is over and was answered with the fallback
\* (there is no data producer under the stream's chat key) or not at all
C25_Witness ==
    \E c \in Conn :
        /\ At(c, "service", "done")
        /\ client[c].streamStarted
        /\ client[c].connected
        /\ reply = Quiet
        /\ ~Has(dataProducers, ChatKey(client[c].stream))

\* C26: setupDataChannel always terminates: its wait for the video producer polls at
\* most maxAttempts times; when it gives up it has polled maxAttempts times and has
\* emitted no consumeData; when the producer became available it has stopped polling and
\* emitted consumeData exactly once; and a wait that has started comes to an end.
C26_PollTerminates ==
    /\ [](\A c \in Conn :
             /\ client[c].attempts <= maxAttempts
             /\ client[c].emitted <= 1
             /\ client[c].poll = "polling" =>
                   client[c].emitted = 0 /\ client[c].attempts < maxAttempts
             /\ client[c].poll = "timedOut" =>
                   /\ client[c].emitted = 0
                   /\ client[c].attempts = maxAttempts
             /\ client[c].poll = "resolved" =>
                   client[c].emitted = 1 /\ client[c].stream # NoId)
    /\ \A c \in Conn : (client[c].poll = "polling") ~> (client[c].poll # "polling")

\* the producer became available during the wait, after some polls, and the one
\* consumeData has been emitted
C26_Witness ==
    \E c \in Conn :
        /\ client[c].poll = "resolved"
        /\ client[c].attempts > 1
        /\ client[c].emitted = 1
        /\ reply.req = "consumeData"

\* the viewer's chat runs over the broadcast: setupDataConsumer is over and has left no
\* data consumer
OnFallback(c) ==
    /\ At(c, "viewer", "ready")
    /\ client[c].dataConsumer = NoId
    /\ conn[c] = "connected"

Shown(d, e) == \E i \in 1 .. Len(messages[d]) : messages[d][i] = e.message

\* the chatMessage requests a connection of the pair can send for the pair's stream
PairEntries(c) ==
    {e \in ChatEntries(c) : e.streamId \in {PId(n) : n \in 1 .. Pair.producers}}

\* C27: when the viewer's consumeData was answered with the fallback or with an error,
\* or creating the data consumer threw, isChatConnected is true from then on; the viewer
\* can send a chatMessage; and every chatMessage sent for its stream reaches it as
\* broadcastChatMessage and is shown, as long as it stays connected.
C27_FallbackChatWorks ==
    /\ [](\A c \in Conn :
             OnFallback(c) =>
                 /\ client[c].isChatConnected
                 /\ nM < MaxMessages => ENABLED (ChatSend(c) /\ UNCHANGED pending))
    /\ \A c \in 1 .. Pair.conns : \A d \in 1 .. Pair.conns : \A e \in PairEntries(c) :
          (Queued(c, e) /\ OnFallback(d) /\ e.streamId = client[d].stream)
              ~> (conn[d] # "connected" \/ (Got(d, e) /\ Shown(d, e)))

\* a viewer whose chat setup left no data consumer has sent a message for its stream
\* and has received its broadcast
C27_Witness ==
    \E c \in Conn : \E e \in ChatEntries(c) :
        /\ OnFallback(c)
        /\ client[c].isChatConnected
        /\ e.streamId = client[c].stream
        /\ Got(c, e)

\* C28: getProducers returns the (id, kind) pairs of the producers map, and the producers
\* map holds exactly the producers that were created and whose transport has not been
\* closed: every producer of the map, and so every pair of the list, is on a transport of
\* the transports map.
C28_ListedProducersLive ==
    \A e \in GetProducersList : Has(transports, producers[e.id].transportId)

\* C29: cleanup is idempotent: a call of cleanup(c) after the disconnect handler of c has
\* run, or for a connection that has created no transport, returns and leaves the
\* transports, socketToTransport, socketToStreamId, producers and dataProducers maps
\* as they were.
C29_CleanupIdempotent ==
    [][\A c \in Conn :
          (reply.res = "none" /\ reply'.req = "cleanup" /\ reply'.socket = c) =>
              /\ reply'.res = "ok"
              /\ UNCHANGED <<transports, socketToTransport, socketToStreamId, producers,
                             dataProducers>>]_vars

\* cleanup has run a second time for a connection that has disconnected and has left a
\* transport and a producer behind
C29_Witness ==
    /\ reply.req = "cleanup"
    /\ conn[reply.socket] = "disconnected"
    /\ \E t \in DOMAIN transports : transports[t].socketId = reply.socket
    /\ \E p \in DOMAIN producers : producers[p].createdBy = reply.socket

\* C30: a newProducer(P) notification is emitted only while P is in the producers map:
\* whenever a connection receives newProducer for P, P is in the producers map, also
\* when the producing connection disconnected while its produce handler was suspended
\* in the creation of the companion data producer.
C30_NewProducerWhileListed ==
    [][\A d \in Conn :
          (/\ Len(inbox'[d]) = Len(inbox[d]) + 1
           /\ inbox'[d][Len(inbox'[d])].type = "newProducer") =>
              Has(producers', inbox'[d][Len(inbox'[d])].producerId)]_vars

\* C31: the handlers' map socketToTransportId and the directory's map socketToTransport
\* agree whenever no handler is suspended: for every connection either both have no entry
\* or both hold the same transport id.
C31_SocketMapsAgree ==
    pending = {} =>
        \A c \in Conn : Get(socketToTransportId, c) = Get(socketToTransport, c)

\* a connection has created two transports, both maps hold the second one, and another
\* connection has disconnected and has no entry in either map
C31_Witness ==
    /\ pending = {}
    /\ \E c \in Conn :
          /\ Get(socketToTransportId, c) = TId(2)
          /\ Get(socketToTransport, c) = TId(2)
          /\ Has(transports, TId(1)) /\ transports[TId(1)].socketId = c
    /\ \E d \in Conn :
          /\ conn[d] = "disconnected"
          /\ ~Has(socketToTransportId, d)
          /\ ~Has(socketToTransport, d)

\* C32: referential integrity of the directory: every transport id that is a value of
\* socketToTransport is a key of the transports map.
C32_SocketTransportsExist ==
    \A c \in DOMAIN socketToTransport : Has(transports, socketToTransport[c])

\* closeAll has run on a directory with transports: the handlers' map still has its
\* entries, socketToTransport has none
C32_Witness ==
    /\ reply.req = "closeAll"
    /\ nT >= 1
    /\ socketToTransportId # <<>>
    /\ socketToTransport = <<>>

\* C39: after closeAll every directory map is empty: when closeAll has returned,
\* transports, socketToTransport, producers, dataProducers and socketToStreamId have no
\* entry.
C39_EmptyAfterCloseAll ==
    reply.req = "closeAll" =>
        /\ transports = <<>>
        /\ socketToTransport = <<>>
        /\ producers = <<>>
        /\ dataProducers = <<>>
        /\ socketToStreamId = <<>>

\* C33: every key of the dataProducers map has the form '{P}-data', where P is the id of
\* a media producer created by the connection that owns the data producer.
C33_ChatKeysOnly ==
    \A k \in DOMAIN dataProducers :
        /\ EndsWithData(k)
        /\ \A p \in DOMAIN producers :
              (k = ChatKey(p) /\ Has(transports, dataProducers[k].transportId)) =>
                  producers[p].createdBy = transports[dataProducers[k].transportId].socketId

\* C34: the handlers of consume, connectConsumerTransport, getProducers, consumeData and
\* chatMessage add, remove and replace no entry of the transports, socketToTransport,
\* producers and dataProducers maps, whether they succeed or fail.
C34_ReadersKeepMaps ==
    [][(\/ reply.res = "none" /\ reply'.req \in Readers
        \/ \E c \in Conn : Len(outbox'[c]) < Len(outbox[c])) =>
           UNCHANGED <<transports, socketToTransport, producers, dataProducers>>]_vars

\* a consumeData has failed on a closed data producer, which is still in the map, and
\* every chatMessage sent has been handled
C34_Witness ==
    /\ reply.req = "consumeData"
    /\ reply.res = "error"
    /\ Has(dataProducers, reply.arg.key)
    /\ dataProducers[reply.arg.key].closed
    /\ nM >= 1
    /\ \A c \in Conn : outbox[c] = <<>>

\* C35: a produce request that fails leaves the producers, dataProducers and
\* socketToStreamId maps unchanged, sends no newProducer notification and answers with an
\* error; and it fails whenever the connection has no transport entry or its transport
\* is not in the transports map.
C35_FailedProduceChangesNothing ==
    [][\A c \in Conn :
          (reply.res = "none" /\ reply'.req = "produce" /\ reply'.socket = c) =>
              /\ (\/ Get(socketToTransportId, c) = NoId
                  \/ Get(socketToTransport, c) = NoId
                  \/ ~Has(transports, socketToTransport[c])) => reply'.res = "error"
              /\ reply'.res = "error" =>
                    /\ reply'.error # ""
                    /\ UNCHANGED <<producers, dataProducers, socketToStreamId, inbox>>]_vars

\* the engine has rejected the produce of a connection with a transport while another
\* connection is there to be notified, and nothing has been sent to it
C35_Witness ==
    /\ reply.req = "produce"
    /\ reply.res = "error"
    /\ reply.error = "EngineError"
    /\ \E d \in Conn \ {reply.socket} : conn[d] = "connected" /\ inbox[d] = <<>>

\* C36: a viewer of stream S appends a chat message it receives only if the message's
\* streamId is S: chat sent for another stream never gets into its message buffer.
C36_ViewerKeepsOwnStream ==
    [][\A d \in Conn : \A w \in wire \ wire' :
          (/\ client[d].program = "viewer"
           /\ w.to = d
           /\ Len(messages'[d]) > Len(messages[d])) =>
              w.streamId = client[d].stream]_vars

\* a viewer of one stream has received the broadcast of a message sent for another
\* stream and its buffer is empty
C36_Witness ==
    \E d \in Conn : \E c \in Conn \ {d} :
        /\ client[d].program = "viewer"
        /\ conn[d] = "connected"
        /\ client[c].stream # NoId
        /\ client[c].stream # client[d].stream
        /\ messages[c] # <<>>
        /\ outbox[c] = <<>>
        /\ wire = {}
        /\ messages[d] = <<>>

\* C37: every message the publisher's handleSendMessage appends to its local message
\* buffer has also been emitted to the server as a chatMessage.
C37_ShownMeansEmitted ==
    [][\A c \in Conn :
          (Service(c) /\ Len(messages'[c]) > Len(messages[c])) =>
              /\ Len(outbox'[c]) = Len(outbox[c]) + 1
              /\ outbox'[c][Len(outbox'[c])].message = messages'[c][Len(messages'[c])]]_vars

\* C38: each broadcastChatMessage the publisher's socket receives invokes onChatMessage
\* exactly once, also after the socket has reconnected: the message is appended once.
C38_OncePerBroadcast ==
    [][\A d \in Conn : \A w \in wire \ wire' :
          (Service(d) /\ w.to = d /\ messages'[d] # messages[d]) =>
              messages'[d] = Append(messages[d], w.message)]_vars

====
